---- MODULE Spec2Model ----
(***************************************************************************)
(* The VFS shell emulator of src/stage5.py: an in-memory tree of VFSNode   *)
(* objects ingested once from a real directory, the path helpers           *)
(* (_split_vfs_path, resolve_vfs_path, make_vfs_dir) and the ShellGUI      *)
(* command interpreter (on_enter, run_script, execute_line, the cmd_      *)
(* methods).                                                               *)
(*                                                                         *)
(* Python strings are sequences of one-character strings, so that          *)
(* splitting, joining and prefix tests are computed, not assumed.  A node  *)
(* reference is the index of the node in the sequence `tree`, in order of  *)
(* construction; None is the index 0.                                      *)
(***************************************************************************)
EXTENDS Integers, Sequences, FiniteSets, TLC

VARIABLES
    tree,        \* the VFSNode objects, by reference (1..Len(tree))
    vfs_root,    \* ShellGUI.vfs_root
    cwd,         \* ShellGUI.cwd
    history,     \* ShellGUI.history
    hist_index,  \* ShellGUI.hist_index (NoIndex for None)
    entry_var,   \* text of the entry widget
    output,      \* text appended to the output widget by the latest handler
    phase,       \* "init", "failed", "script" (constructor running the script),
                 \* "interactive", "closed"; "library" and "command" for direct calls
    script,      \* the --script file and the number of its lines read so far
    environ,     \* os.environ
    timers,      \* number of pending after(200, destroy) callbacks
    call,        \* the latest direct call of a path helper or of on_enter
    src_dir      \* the real directory that --vfs names, as it is now

vars == <<tree, vfs_root, cwd, history, hist_index, entry_var, output, phase,
          script, environ, timers, call, src_dir>>

----------------------------------------------------------------------------
(* Bounds of the model *)

MaxPathLen == 4
MaxHist == 2
MaxTextLen == 4
MaxScriptLen == 3
MaxWalkLen == 3

----------------------------------------------------------------------------
(* Strings *)

None == 0
NoMode == -1
MODE_DIR == 493
MODE_FILE == 420

SEP == "/"
BACKSLASH == "\\"
DOT == <<".">>
DOTDOT == <<".", ".">>

\* character codes, the order Python's sorted() uses on str
CharCode(c) ==
    CASE c = " " -> 32 [] c = "\"" -> 34 [] c = "$" -> 36 [] c = "'" -> 39
      [] c = "+" -> 43 [] c = "-" -> 45
      [] c = "." -> 46 [] c = "/" -> 47
      [] c = "0" -> 48 [] c = "1" -> 49 [] c = "2" -> 50 [] c = "3" -> 51
      [] c = "4" -> 52 [] c = "5" -> 53 [] c = "6" -> 54 [] c = "7" -> 55
      [] c = "8" -> 56 [] c = "9" -> 57
      [] c = "H" -> 72 [] c = "Q" -> 81 [] c = "U" -> 85
      [] c = "\\" -> 92 [] c = "_" -> 95
      [] c = "a" -> 97 [] c = "c" -> 99 [] c = "d" -> 100 [] c = "e" -> 101
      [] c = "f" -> 102 [] c = "g" -> 103 [] c = "h" -> 104 [] c = "i" -> 105
      [] c = "k" -> 107 [] c = "l" -> 108 [] c = "m" -> 109 [] c = "n" -> 110
      [] c = "o" -> 111 [] c = "p" -> 112 [] c = "r" -> 114 [] c = "s" -> 115
      [] c = "t" -> 116 [] c = "x" -> 120 [] c = "y" -> 121

RECURSIVE StrLess(_, _)
\* a < b on Python str
StrLess(a, b) ==
    IF b = <<>> THEN FALSE
    ELSE IF a = <<>> THEN TRUE
    ELSE IF Head(a) = Head(b) THEN StrLess(Tail(a), Tail(b))
    ELSE CharCode(Head(a)) < CharCode(Head(b))

RECURSIVE sorted(_)
\* sorted(names): the names of a set in ascending order
sorted(S) ==
    IF S = {} THEN <<>>
    ELSE LET m == CHOOSE x \in S : \A y \in S \ {x} : StrLess(x, y)
         IN  <<m>> \o sorted(S \ {m})

startswith(s, c) == Len(s) > 0 /\ s[1] = c

\* s.replace(a, b) for one-character a and b
replace(s, a, b) == [i \in 1..Len(s) |-> IF s[i] = a THEN b ELSE s[i]]

RECURSIVE SplitFrom(_, _, _, _)
\* s.split(sep), scanning from position i with the current piece cur
SplitFrom(s, sep, i, cur) ==
    IF i > Len(s) THEN <<cur>>
    ELSE IF s[i] = sep THEN <<cur>> \o SplitFrom(s, sep, i + 1, <<>>)
    ELSE SplitFrom(s, sep, i + 1, Append(cur, s[i]))

split(s, sep) == SplitFrom(s, sep, 1, <<>>)

RECURSIVE join(_, _)
\* sep.join(parts)
join(parts, sep) ==
    IF parts = <<>> THEN <<>>
    ELSE IF Len(parts) = 1 THEN parts[1]
    ELSE parts[1] \o <<sep>> \o join(Tail(parts), sep)

RECURSIVE Filter(_, _)
Filter(seq, drop) ==
    IF seq = <<>> THEN <<>>
    ELSE IF Head(seq) = drop THEN Filter(Tail(seq), drop)
    ELSE <<Head(seq)>> \o Filter(Tail(seq), drop)

RECURSIVE StringsUpTo(_, _)
\* every string over the characters C of length at most n
StringsUpTo(C, n) ==
    IF n = 0 THEN {<<>>}
    ELSE LET shorter == StringsUpTo(C, n - 1)
         IN  shorter \cup {Append(s, c) : s \in shorter, c \in C}

----------------------------------------------------------------------------
(* VFS node *)

\* VFSNode.__init__
VFSNode(name, is_dir, mode) ==
    [name |-> name, is_dir |-> is_dir, children |-> <<>>, content |-> "",
     parent |-> None,
     mode |-> IF mode = NoMode THEN (IF is_dir THEN MODE_DIR ELSE MODE_FILE) ELSE mode]

\* VFSNode.add_child: self.add_child(node)
add_child(t, self, node) ==
    [t EXCEPT ![node].parent = self,
              ![self].children = (t[node].name :> node) @@ t[self].children]

\* allocation of a new object: its reference is the next index
New(t, obj) == Append(t, obj)

\* VFSNode.path_from_root
RECURSIVE PathParts(_, _)
PathParts(t, node) ==
    IF t[node].parent # None
    THEN PathParts(t, t[node].parent) \o <<t[node].name>>
    ELSE <<>>

path_from_root(t, self) ==
    LET parts == PathParts(t, self)
    IN  IF parts = <<>> THEN <<SEP>> ELSE <<SEP>> \o join(parts, SEP)

----------------------------------------------------------------------------
(* The real directory and its ingestion *)

\* an entry of the real file system: kind is "dir", "file" or "none" (no such
\* path); list is what os.listdir does on it ("ok", "denied" for a
\* PermissionError, "error" for any other OSError); read is whether open/read
\* succeed
DiskFile(text, readable) ==
    [kind |-> "file", list |-> "error", read |-> readable, content |-> text,
     entries |-> <<>>]

DiskDir(listing, entries) ==
    [kind |-> "dir", list |-> listing, read |-> FALSE, content |-> "",
     entries |-> entries]

DiskMissing ==
    [kind |-> "none", list |-> "error", read |-> FALSE, content |-> "",
     entries |-> <<>>]

MOTD == <<"m", "o", "t", "d">>

\* /d/f, /f and /motd (the spec's /docs/readme.txt and /motd)
DiskMain ==
    DiskDir("ok", (<<"d">> :> DiskDir("ok", <<"f">> :> DiskFile("readme", TRUE)))
                  @@ (<<"f">> :> DiskFile("data", TRUE))
                  @@ (MOTD :> DiskFile("welcome", TRUE)))

\* a subdirectory that cannot be listed and a file that cannot be read
DiskDenied ==
    DiskDir("ok", (<<"d">> :> DiskDir("denied", <<"f">> :> DiskFile("secret", TRUE)))
                  @@ (<<"f">> :> DiskFile("binary", FALSE)))

\* a subdirectory whose listing fails with an error other than PermissionError
DiskBroken ==
    DiskDir("ok", (<<"d">> :> DiskDir("error", <<>>))
                  @@ (<<"f">> :> DiskFile("data", TRUE)))

Disks == {DiskMain, DiskDenied, DiskBroken, DiskFile("data", TRUE), DiskMissing}

RECURSIVE _walk(_, _, _)
RECURSIVE WalkEntries(_, _, _, _)

\* the loop of _walk over sorted(os.listdir(disk_path)); ok = FALSE when an
\* exception leaves the loop
WalkEntries(disk, names, t, vfs_node) ==
    IF names = <<>> THEN [ok |-> TRUE, tree |-> t]
    ELSE LET entry == Head(names)
             full == disk.entries[entry]
         IN  IF full.kind = "dir"
             THEN LET t1 == New(t, VFSNode(entry, TRUE, MODE_DIR))
                      child == Len(t1)
                      r == _walk(full, add_child(t1, vfs_node, child), child)
                  IN  IF r.ok THEN WalkEntries(disk, Tail(names), r.tree, vfs_node)
                      ELSE r
             ELSE LET node == VFSNode(entry, FALSE, MODE_FILE)
                      t1 == New(t, [node EXCEPT !.content =
                                       IF full.read THEN full.content ELSE ""])
                  IN  WalkEntries(disk, Tail(names),
                                  add_child(t1, vfs_node, Len(t1)), vfs_node)

\* build_vfs_from_disk._walk: a PermissionError of the listing is swallowed
_walk(disk, t, vfs_node) ==
    IF disk.list = "denied" THEN [ok |-> TRUE, tree |-> t]
    ELSE IF disk.list = "error" THEN [ok |-> FALSE, tree |-> t]
    ELSE WalkEntries(disk, sorted(DOMAIN disk.entries), t, vfs_node)

\* build_vfs_from_disk that takes a path that is no directory for an empty
\* directory
build_vfs_from_disk_lenient(src) ==
    IF src.kind # "dir" THEN [ok |-> TRUE, tree |-> New(<<>>, VFSNode(<<SEP>>, TRUE, NoMode))]
    ELSE _walk(src, New(<<>>, VFSNode(<<SEP>>, TRUE, NoMode)), 1)

\* build_vfs_from_disk: ok = FALSE when it raises; the root is node 1
build_vfs_from_disk(src) ==
    IF src.kind # "dir" THEN [ok |-> FALSE, tree |-> <<>>]
    ELSE _walk(src, New(<<>>, VFSNode(<<SEP>>, TRUE, NoMode)), 1)

----------------------------------------------------------------------------
(* Path helpers.  A helper returns its result together with the tree as the
   call leaves it. *)

RECURSIVE Strip(_, _)
\* s.strip(c)
Strip(s, c) ==
    IF s = <<>> THEN s
    ELSE IF Head(s) = c THEN Strip(Tail(s), c)
    ELSE IF s[Len(s)] = c THEN Strip(SubSeq(s, 1, Len(s) - 1), c)
    ELSE s

\* _split_vfs_path written as p.strip("/").split("/"): the empty parts inside
\* the path are kept
_split_vfs_path_strip(p) ==
    LET q == Strip(replace(p, BACKSLASH, SEP), SEP)
    IN  IF q = <<>> THEN <<>> ELSE split(q, SEP)

\* _split_vfs_path
_split_vfs_path(p) ==
    LET q == replace(p, BACKSLASH, SEP)
    IN  IF q = <<>> \/ q = <<SEP>> THEN <<>>
        ELSE Filter(split(q, SEP), <<>>)

RECURSIVE RootOf(_, _)
\* resolve_vfs_path: while node.parent is not None: node = node.parent
RootOf(t, node) ==
    IF t[node].parent # None THEN RootOf(t, t[node].parent) ELSE node

\* the start rule with the test for an absolute path lost
ResolveStart_cwd(t, cwd_, path) == cwd_

\* resolve_vfs_path: the node the walk starts at
ResolveStart(t, cwd_, path) ==
    IF startswith(path, SEP) THEN RootOf(t, cwd_) ELSE cwd_

\* one iteration that stays on the walk node when the child is missing
ResolveStep_partial(t, node, part) ==
    IF part = DOT THEN [node |-> node, tree |-> t]
    ELSE IF part = DOTDOT
    THEN [node |-> IF t[node].parent # None THEN t[node].parent ELSE node,
          tree |-> t]
    ELSE IF ~t[node].is_dir THEN [node |-> node, tree |-> t]
    ELSE IF part \notin DOMAIN t[node].children THEN [node |-> node, tree |-> t]
    ELSE [node |-> t[node].children[part], tree |-> t]

\* one iteration for which '..' at the root is a failure
ResolveStep_strict_root(t, node, part) ==
    IF part = DOT THEN [node |-> node, tree |-> t]
    ELSE IF part = DOTDOT
    THEN [node |-> t[node].parent, tree |-> t]
    ELSE IF ~t[node].is_dir THEN [node |-> None, tree |-> t]
    ELSE IF part \notin DOMAIN t[node].children THEN [node |-> None, tree |-> t]
    ELSE [node |-> t[node].children[part], tree |-> t]

\* one iteration that creates the missing child (children.setdefault)
ResolveStep_create(t, node, part) ==
    IF part = DOT THEN [node |-> node, tree |-> t]
    ELSE IF part = DOTDOT
    THEN [node |-> IF t[node].parent # None THEN t[node].parent ELSE node,
          tree |-> t]
    ELSE IF ~t[node].is_dir THEN [node |-> None, tree |-> t]
    ELSE IF part \notin DOMAIN t[node].children
    THEN LET t1 == New(t, VFSNode(part, TRUE, NoMode))
         IN  [node |-> Len(t1), tree |-> add_child(t1, node, Len(t1))]
    ELSE [node |-> t[node].children[part], tree |-> t]

\* one iteration that enters a directory only when its owner has the x bit
ResolveStep_enforce(t, node, part) ==
    IF part = DOT THEN [node |-> node, tree |-> t]
    ELSE IF part = DOTDOT
    THEN [node |-> IF t[node].parent # None THEN t[node].parent ELSE node,
          tree |-> t]
    ELSE IF ~t[node].is_dir THEN [node |-> None, tree |-> t]
    ELSE IF part \notin DOMAIN t[node].children THEN [node |-> None, tree |-> t]
    ELSE IF t[t[node].children[part]].is_dir
            /\ (t[t[node].children[part]].mode \div 64) % 2 = 0
    THEN [node |-> None, tree |-> t]
    ELSE [node |-> t[node].children[part], tree |-> t]

\* resolve_vfs_path: one iteration of `for part in parts`; node = None is
\* `return None`
ResolveStep(t, node, part) ==
    IF part = DOT THEN [node |-> node, tree |-> t]
    ELSE IF part = DOTDOT
    THEN [node |-> IF t[node].parent # None THEN t[node].parent ELSE node,
          tree |-> t]
    ELSE IF ~t[node].is_dir THEN [node |-> None, tree |-> t]
    ELSE IF part \notin DOMAIN t[node].children THEN [node |-> None, tree |-> t]
    ELSE [node |-> t[node].children[part], tree |-> t]

RECURSIVE ResolveWalk(_, _, _)
\* resolve_vfs_path: the loop over the parts
ResolveWalk(t, node, parts) ==
    IF parts = <<>> THEN [node |-> node, tree |-> t]
    ELSE LET r == ResolveStep(t, node, Head(parts))
         IN  IF r.node = None THEN r ELSE ResolveWalk(r.tree, r.node, Tail(parts))

\* resolve_vfs_path(cwd, path)
resolve_vfs_path(t, cwd_, path) ==
    ResolveWalk(t, ResolveStart(t, cwd_, path), _split_vfs_path(path))

\* the node resolve_vfs_path returns
resolve(t, cwd_, path) == resolve_vfs_path(t, cwd_, path).node

\* make_vfs_dir: parent_path and parent_node
MkdirParent(t, cwd_, path, parent_parts) ==
    LET parent_path ==
            IF startswith(path, SEP) /\ parent_parts # <<>>
            THEN <<SEP>> \o join(parent_parts, SEP)
            ELSE join(parent_parts, SEP)
    IN  IF parent_parts # <<>> THEN resolve_vfs_path(t, cwd_, parent_path)
        ELSE IF ~startswith(path, SEP) THEN [node |-> cwd_, tree |-> t]
        ELSE resolve_vfs_path(t, cwd_, <<SEP>>)

\* make_vfs_dir without the test for an existing child
make_vfs_dir_overwrite(t, cwd_, path, mode) ==
    LET parts == _split_vfs_path(path)
    IN  IF parts = <<>> THEN [node |-> None, tree |-> t]
        ELSE LET name == parts[Len(parts)]
                 pr == MkdirParent(t, cwd_, path, SubSeq(parts, 1, Len(parts) - 1))
             IN  IF pr.node = None \/ ~pr.tree[pr.node].is_dir
                 THEN [node |-> None, tree |-> pr.tree]
                 ELSE LET t1 == New(pr.tree, VFSNode(name, TRUE, mode))
                      IN  [node |-> Len(t1), tree |-> add_child(t1, pr.node, Len(t1))]

\* make_vfs_dir that hangs the new directory under cwd, not under the parent
make_vfs_dir_under_cwd(t, cwd_, path, mode) ==
    LET parts == _split_vfs_path(path)
    IN  IF parts = <<>> THEN [node |-> None, tree |-> t]
        ELSE LET name == parts[Len(parts)]
                 pr == MkdirParent(t, cwd_, path, SubSeq(parts, 1, Len(parts) - 1))
             IN  IF pr.node = None \/ ~pr.tree[pr.node].is_dir
                 THEN [node |-> None, tree |-> pr.tree]
                 ELSE IF name \in DOMAIN pr.tree[pr.node].children
                 THEN [node |-> None, tree |-> pr.tree]
                 ELSE LET t1 == New(pr.tree, VFSNode(name, TRUE, mode))
                      IN  [node |-> Len(t1), tree |-> add_child(t1, cwd_, Len(t1))]

\* make_vfs_dir without the test that the parent is a Directory
make_vfs_dir_in_file(t, cwd_, path, mode) ==
    LET parts == _split_vfs_path(path)
    IN  IF parts = <<>> THEN [node |-> None, tree |-> t]
        ELSE LET name == parts[Len(parts)]
                 pr == MkdirParent(t, cwd_, path, SubSeq(parts, 1, Len(parts) - 1))
             IN  IF pr.node = None
                 THEN [node |-> None, tree |-> pr.tree]
                 ELSE IF name \in DOMAIN pr.tree[pr.node].children
                 THEN [node |-> None, tree |-> pr.tree]
                 ELSE LET t1 == New(pr.tree, VFSNode(name, TRUE, mode))
                      IN  [node |-> Len(t1), tree |-> add_child(t1, pr.node, Len(t1))]

\* make_vfs_dir(cwd, path, mode): node = None is `return None`
make_vfs_dir(t, cwd_, path, mode) ==
    LET parts == _split_vfs_path(path)
    IN  IF parts = <<>> THEN [node |-> None, tree |-> t]
        ELSE LET name == parts[Len(parts)]
                 pr == MkdirParent(t, cwd_, path, SubSeq(parts, 1, Len(parts) - 1))
             IN  IF pr.node = None \/ ~pr.tree[pr.node].is_dir
                 THEN [node |-> None, tree |-> pr.tree]
                 ELSE IF name \in DOMAIN pr.tree[pr.node].children
                 THEN [node |-> None, tree |-> pr.tree]
                 ELSE LET t1 == New(pr.tree, VFSNode(name, TRUE, mode))
                      IN  [node |-> Len(t1), tree |-> add_child(t1, pr.node, Len(t1))]

----------------------------------------------------------------------------
(* Variable expansion and tokenization *)

IsDigit(c) == CharCode(c) >= 48 /\ CharCode(c) <= 57
IsAlpha(c) == \/ CharCode(c) >= 65 /\ CharCode(c) <= 90
              \/ CharCode(c) >= 97 /\ CharCode(c) <= 122
IsNameStart(c) == IsAlpha(c) \/ c = "_"
IsNameChar(c) == IsAlpha(c) \/ IsDigit(c) \/ c = "_"
IsSpace(c) == c \in {" ", "\t", "\r", "\n"}

RECURSIVE NameEnd(_, _)
\* the end of the longest run of name characters of s that starts at i
NameEnd(s, i) ==
    IF i + 1 <= Len(s) /\ IsNameChar(s[i + 1]) THEN NameEnd(s, i + 1) ELSE i

RECURSIVE ExpandFrom(_, _, _)
\* _var_pattern.sub(repl, text) from position i: matches are found left to
\* right and a replacement is not scanned again
ExpandFrom(env, s, i) ==
    IF i > Len(s) THEN <<>>
    ELSE IF s[i] = "$" /\ i + 1 <= Len(s) /\ IsNameStart(s[i + 1])
    THEN LET e == NameEnd(s, i + 1)
             name == SubSeq(s, i + 1, e)
             value == IF name \in DOMAIN env THEN env[name] ELSE <<"$">> \o name
         IN  value \o ExpandFrom(env, s, e + 1)
    ELSE <<s[i]>> \o ExpandFrom(env, s, i + 1)

\* expand_vars that expands again what the values of the variables hold
expand_vars_twice(env, text) == ExpandFrom(env, ExpandFrom(env, text, 1), 1)

\* expand_vars(text)
expand_vars(env, text) == ExpandFrom(env, text, 1)

QUOTES == {"'", "\""}
ESCAPE == "\\"

\* shlex.read_token's end of a token: posix mode drops an empty unquoted one
LexEmit(toks, tok, quoted) ==
    IF tok = <<>> /\ ~quoted THEN toks ELSE Append(toks, tok)

RECURSIVE Lex(_, _, _, _, _, _, _)
\* shlex.shlex(s, posix=True) with whitespace_split, read to the end: st is
\* the lexer state (" ", "a", an open quote or the escape character), tok the
\* token under construction, esc the state an escape returns to.
\* ok = FALSE is the ValueError of an open quote or a dangling escape
Lex(s, i, st, tok, quoted, esc, toks) ==
    IF i > Len(s)
    THEN IF st \in QUOTES \/ st = ESCAPE THEN [ok |-> FALSE, tokens |-> toks]
         ELSE [ok |-> TRUE, tokens |-> LexEmit(toks, tok, quoted)]
    ELSE LET c == s[i]
         IN  IF st = " "
             THEN IF IsSpace(c) THEN Lex(s, i + 1, " ", tok, quoted, esc, toks)
                  ELSE IF c = ESCAPE THEN Lex(s, i + 1, c, tok, quoted, "a", toks)
                  ELSE IF c \in QUOTES THEN Lex(s, i + 1, c, tok, quoted, esc, toks)
                  ELSE Lex(s, i + 1, "a", <<c>>, quoted, esc, toks)
             ELSE IF st \in QUOTES
             THEN IF c = st THEN Lex(s, i + 1, "a", tok, TRUE, esc, toks)
                  ELSE IF c = ESCAPE /\ st = "\""
                  THEN Lex(s, i + 1, c, tok, TRUE, st, toks)
                  ELSE Lex(s, i + 1, st, Append(tok, c), TRUE, esc, toks)
             ELSE IF st = ESCAPE
             THEN IF esc \in QUOTES /\ c # st /\ c # esc
                  THEN Lex(s, i + 1, esc, tok \o <<st, c>>, quoted, esc, toks)
                  ELSE Lex(s, i + 1, esc, Append(tok, c), quoted, esc, toks)
             ELSE \* st = "a"
                  IF IsSpace(c)
                  THEN IF tok # <<>> \/ quoted
                       THEN Lex(s, i + 1, " ", <<>>, FALSE, esc, Append(toks, tok))
                       ELSE Lex(s, i + 1, " ", tok, quoted, esc, toks)
                  ELSE IF c \in QUOTES THEN Lex(s, i + 1, c, tok, quoted, esc, toks)
                  ELSE IF c = ESCAPE THEN Lex(s, i + 1, c, tok, quoted, "a", toks)
                  ELSE Lex(s, i + 1, "a", Append(tok, c), quoted, esc, toks)

\* shlex.split(s)
shlex_split(s) == Lex(s, 1, " ", <<>>, FALSE, " ", <<>>)

\* str.strip() == "": only whitespace
IsBlank(s) == \A i \in 1..Len(s) : IsSpace(s[i])

----------------------------------------------------------------------------
(* Output.  A message is one print_output call: kind names the format string
   and text is what the call fills in. *)

Msg(kind, text) == [kind |-> kind, text |-> text]

DigitChar(d) == <<"0", "1", "2", "3", "4", "5", "6", "7", "8", "9">>[d + 1]

RECURSIVE Dec(_)
\* str(n) for n >= 0
Dec(n) == IF n < 10 THEN <<DigitChar(n)>> ELSE Append(Dec(n \div 10), DigitChar(n % 10))

RECURSIVE Oct(_)
\* format(n, "o") for n >= 0
Oct(n) == IF n < 8 THEN <<DigitChar(n)>> ELSE Append(Oct(n \div 8), DigitChar(n % 8))

\* format(n, "03o")
Oct3(n) ==
    LET o == Oct(n)
    IN  IF Len(o) = 1 THEN <<"0", "0">> \o o ELSE IF Len(o) = 2 THEN <<"0">> \o o ELSE o

\* who & bit, on Python's unbounded two's complement integers
HasBit(who, bit) == (who \div bit) % 2 = 1

Rwx(who) ==
    << IF HasBit(who, 4) THEN "r" ELSE "-",
       IF HasBit(who, 2) THEN "w" ELSE "-",
       IF HasBit(who, 1) THEN "x" ELSE "-" >>

\* format_mode(mode)
format_mode(mode) ==
    Oct3(mode % 512) \o <<" ", "(">> \o Rwx(mode \div 64) \o Rwx((mode \div 8) % 8)
        \o Rwx(mode % 8) \o <<")">>

\* ShellGUI.prompt_text: the name shown in the prompt
prompt_text(t, cwd_) == IF t[cwd_].parent # None THEN t[cwd_].name ELSE <<SEP>>

\* ShellGUI.print_output on the session s
print_output(s, kind, text) == [s EXCEPT !.out = Append(@, Msg(kind, text))]

----------------------------------------------------------------------------
(* Commands.  A command works on the session s = [tree, cwd, out, timers]
   and returns it as the command leaves it. *)

\* int(text, base) for an optional sign followed by digits (base 8 also with
\* the literal prefix 0o); ok = FALSE is the ValueError
ParseInt(text, base) ==
    LET signed == Len(text) > 0 /\ text[1] \in {"+", "-"}
        body == IF signed THEN Tail(text) ELSE text
        prefixed == base = 8 /\ Len(body) >= 2 /\ body[1] = "0" /\ body[2] \in {"o", "O"}
        digits == IF prefixed THEN SubSeq(body, 3, Len(body)) ELSE body
        valid == /\ digits # <<>>
                 /\ \A i \in 1..Len(digits) :
                        IsDigit(digits[i]) /\ CharCode(digits[i]) - 48 < base
        Value[i \in 0..Len(digits)] ==
            IF i = 0 THEN 0 ELSE Value[i - 1] * base + (CharCode(digits[i]) - 48)
    IN  IF ~valid THEN [ok |-> FALSE, value |-> 0]
        ELSE [ok |-> TRUE,
              value |-> IF signed /\ text[1] = "-" THEN 0 - Value[Len(digits)]
                        ELSE Value[Len(digits)]]

\* the mode parser reading every mode string in base 10
ParseMode_decimal(mode_str) == ParseInt(mode_str, 10)

\* cmd_chmod: the mode parser
ParseMode(mode_str) ==
    IF startswith(mode_str, "0") THEN ParseInt(mode_str, 8)
    ELSE IF \A i \in 1..Len(mode_str) : mode_str[i] \in {"0", "1", "2", "3", "4", "5", "6", "7"}
    THEN ParseInt(mode_str, 8)
    ELSE ParseInt(mode_str, 10)

\* cmd_exit that closes the window whatever its arguments are
cmd_exit_always(s, args) ==
    IF args # <<>>
    THEN [print_output(s, "exit: unexpected arguments", <<>>) EXCEPT !.timers = @ + 1]
    ELSE [print_output(s, "Exiting...", <<>>) EXCEPT !.timers = @ + 1]

\* ShellGUI.cmd_exit
cmd_exit(s, args) ==
    IF args # <<>> THEN print_output(s, "exit: unexpected arguments", <<>>)
    ELSE [print_output(s, "Exiting...", <<>>) EXCEPT !.timers = @ + 1]

RECURSIVE LsLines_plain(_, _, _)
\* the loop of cmd_ls without the suffix of a Directory
LsLines_plain(s, node, names) ==
    IF names = <<>> THEN s
    ELSE LET name == Head(names)
             child == s.tree[node].children[name]
         IN  LsLines_plain(print_output(s, "ls entry",
                               name \o <<"\t">> \o format_mode(s.tree[child].mode)),
                           node, Tail(names))

RECURSIVE LsLines(_, _, _)
\* cmd_ls: the loop over sorted(node.children.keys())
LsLines(s, node, names) ==
    IF names = <<>> THEN s
    ELSE LET name == Head(names)
             child == s.tree[node].children[name]
             suffix == IF s.tree[child].is_dir THEN <<SEP>> ELSE <<>>
         IN  LsLines(print_output(s, "ls entry",
                         name \o suffix \o <<"\t">> \o format_mode(s.tree[child].mode)),
                     node, Tail(names))

\* ShellGUI.cmd_ls
cmd_ls(s, args) ==
    LET r == IF args = <<>> THEN [node |-> s.cwd, tree |-> s.tree]
             ELSE resolve_vfs_path(s.tree, s.cwd, args[1])
        s1 == [s EXCEPT !.tree = r.tree]
    IN  IF r.node = None THEN print_output(s1, "ls: cannot access", args[1])
        ELSE IF ~s1.tree[r.node].is_dir
        THEN print_output(s1, "ls file", s1.tree[r.node].name)
        ELSE LsLines(s1, r.node, sorted(DOMAIN s1.tree[r.node].children))

\* cmd_cd without the test for a Directory
cmd_cd_any(s, args) ==
    IF Len(args) > 1 THEN print_output(s, "cd: too many arguments", <<>>)
    ELSE LET target == IF args # <<>> THEN args[1] ELSE <<SEP>>
             r == resolve_vfs_path(s.tree, s.cwd, target)
             s1 == [s EXCEPT !.tree = r.tree]
         IN  IF r.node = None
             THEN print_output(s1, "cd: no such file or directory", target)
             ELSE print_output([s1 EXCEPT !.cwd = r.node], "", <<>>)

\* ShellGUI.cmd_cd
cmd_cd(s, args) ==
    IF Len(args) > 1 THEN print_output(s, "cd: too many arguments", <<>>)
    ELSE LET target == IF args # <<>> THEN args[1] ELSE <<SEP>>
             r == resolve_vfs_path(s.tree, s.cwd, target)
             s1 == [s EXCEPT !.tree = r.tree]
         IN  IF r.node = None
             THEN print_output(s1, "cd: no such file or directory", target)
             ELSE IF ~s1.tree[r.node].is_dir
             THEN print_output(s1, "cd: not a directory", target)
             ELSE print_output([s1 EXCEPT !.cwd = r.node], "", <<>>)

\* ShellGUI.cmd_mkdir
cmd_mkdir(s, args) ==
    IF Len(args) # 1 THEN print_output(s, "mkdir: usage", <<>>)
    ELSE LET path == args[1]
             created == make_vfs_dir(s.tree, s.cwd, path, MODE_DIR)
             s1 == [s EXCEPT !.tree = created.tree]
         IN  IF created.node = None THEN print_output(s1, "mkdir: cannot create", path)
             ELSE print_output(s1, "mkdir: created", path_from_root(s1.tree, created.node))

\* cmd_chmod that falls back on cwd when the path names no node
cmd_chmod_on_cwd(s, args) ==
    IF Len(args) # 2 THEN print_output(s, "chmod: usage", <<>>)
    ELSE LET mode == ParseMode(args[1])
             path == args[2]
         IN  IF ~mode.ok THEN print_output(s, "chmod: invalid mode", <<>>)
             ELSE LET r == resolve_vfs_path(s.tree, s.cwd, path)
                      node == IF r.node = None THEN s.cwd ELSE r.node
                      s2 == [s EXCEPT !.tree = [r.tree EXCEPT ![node].mode = mode.value]]
                  IN  print_output(s2, "chmod: changed mode",
                          path_from_root(s2.tree, node) \o <<" ">>
                              \o format_mode(mode.value))

\* ShellGUI.cmd_chmod
cmd_chmod(s, args) ==
    IF Len(args) # 2 THEN print_output(s, "chmod: usage", <<>>)
    ELSE LET mode == ParseMode(args[1])
             path == args[2]
         IN  IF ~mode.ok THEN print_output(s, "chmod: invalid mode", <<>>)
             ELSE LET r == resolve_vfs_path(s.tree, s.cwd, path)
                      s1 == [s EXCEPT !.tree = r.tree]
                  IN  IF r.node = None
                      THEN print_output(s1, "chmod: no such file or directory", path)
                      ELSE LET s2 == [s1 EXCEPT !.tree[r.node].mode = mode.value]
                           IN  print_output(s2, "chmod: changed mode",
                                   path_from_root(s2.tree, r.node) \o <<" ">>
                                       \o format_mode(mode.value))

RECURSIVE HistoryLines(_, _, _)
\* cmd_history: the loop over enumerate(self.history, start=1)
HistoryLines(s, hist, i) ==
    IF i > Len(hist) THEN s
    ELSE HistoryLines(print_output(s, "history entry", Dec(i) \o <<" ", " ">> \o hist[i]),
                      hist, i + 1)

\* ShellGUI.cmd_history
cmd_history(s, hist, args) ==
    IF hist = <<>> THEN print_output(s, "No history", <<>>)
    ELSE HistoryLines(s, hist, 1)

\* ShellGUI.cmd_date: the text is the wall clock's
cmd_date(s, args) == print_output(s, "date", <<>>)

\* ShellGUI.cmd_cal: the calendar text, or one of its two error messages
cmd_cal(s, args) ==
    LET month == IF Len(args) = 0 THEN [ok |-> TRUE, value |-> 1]
                 ELSE IF Len(args) = 1 THEN ParseInt(args[1], 10)
                 ELSE ParseInt(args[2], 10)
        year == IF Len(args) <= 1 THEN [ok |-> TRUE, value |-> 2000]
                ELSE ParseInt(args[1], 10)
    IN  IF ~month.ok \/ ~year.ok THEN print_output(s, "cal: error parsing arguments", <<>>)
        ELSE IF ~(1 <= month.value /\ month.value <= 12)
        THEN print_output(s, "cal: invalid month", <<>>)
        ELSE print_output(s, "cal", <<>>)

\* ShellGUI.cmd_help
cmd_help(s, args) == print_output(s, "help", <<>>)

----------------------------------------------------------------------------
(* The interpreter *)

NoIndex == -1

\* the dispatch that drops a line whose first token names no command
Dispatch_silent(s, hist, tokens) ==
    LET cmd == Head(tokens)
        args == Tail(tokens)
    IN  IF cmd = <<"e", "x", "i", "t">> THEN cmd_exit(s, args)
        ELSE IF cmd = <<"l", "s">> THEN cmd_ls(s, args)
        ELSE IF cmd = <<"c", "d">> THEN cmd_cd(s, args)
        ELSE IF cmd = <<"m", "k", "d", "i", "r">> THEN cmd_mkdir(s, args)
        ELSE IF cmd = <<"c", "h", "m", "o", "d">> THEN cmd_chmod(s, args)
        ELSE IF cmd = <<"h", "i", "s", "t", "o", "r", "y">> THEN cmd_history(s, hist, args)
        ELSE IF cmd = <<"d", "a", "t", "e">> THEN cmd_date(s, args)
        ELSE IF cmd = <<"c", "a", "l">> THEN cmd_cal(s, args)
        ELSE IF cmd = <<"h", "e", "l", "p">> THEN cmd_help(s, args)
        ELSE s

\* execute_line: the dispatch on the first token
Dispatch(s, hist, tokens) ==
    LET cmd == Head(tokens)
        args == Tail(tokens)
    IN  IF cmd = <<"e", "x", "i", "t">> THEN cmd_exit(s, args)
        ELSE IF cmd = <<"l", "s">> THEN cmd_ls(s, args)
        ELSE IF cmd = <<"c", "d">> THEN cmd_cd(s, args)
        ELSE IF cmd = <<"m", "k", "d", "i", "r">> THEN cmd_mkdir(s, args)
        ELSE IF cmd = <<"c", "h", "m", "o", "d">> THEN cmd_chmod(s, args)
        ELSE IF cmd = <<"h", "i", "s", "t", "o", "r", "y">> THEN cmd_history(s, hist, args)
        ELSE IF cmd = <<"d", "a", "t", "e">> THEN cmd_date(s, args)
        ELSE IF cmd = <<"c", "a", "l">> THEN cmd_cal(s, args)
        ELSE IF cmd = <<"h", "e", "l", "p">> THEN cmd_help(s, args)
        ELSE print_output(s, "Unknown command", cmd)

\* execute_line that runs the words before the point where tokenization
\* failed
execute_line_partial(s, hist, env, line) ==
    LET expanded == expand_vars(env, line)
        lexed == shlex_split(expanded)
        words == Filter(split(expanded, " "), <<>>)
    IN  IF ~lexed.ok
        THEN Dispatch(print_output(s, "parse error", <<>>), hist,
                      SubSeq(words, 1, Len(words) - 1))
        ELSE IF lexed.tokens = <<>> THEN s
        ELSE Dispatch(s, hist, lexed.tokens)

\* ShellGUI.execute_line
execute_line(s, hist, env, line) ==
    LET expanded == expand_vars(env, line)
        lexed == shlex_split(expanded)
    IN  IF ~lexed.ok THEN print_output(s, "parse error", <<>>)
        ELSE IF lexed.tokens = <<>> THEN s
        ELSE Dispatch(s, hist, lexed.tokens)

\* a session whose commands run from the root while a recalled line is shown
Session_cursor ==
    [tree |-> tree, cwd |-> IF hist_index # NoIndex THEN vfs_root ELSE cwd,
     out |-> <<>>, timers |-> timers]

\* the session as the commands see it
Session == [tree |-> tree, cwd |-> cwd, out |-> <<>>, timers |-> timers]

\* the echo of a submitted line: print_output(self.prompt_text() + line)
Echo(line) == Msg("prompt", prompt_text(tree, cwd) \o line)

----------------------------------------------------------------------------
(* Inputs of a run: the real directory, the environment, the script file *)

Environ1 == (<<"H">> :> <<"/", "d">>) @@ (<<"Q">> :> <<"'">>)

Environs == {Environ1}

\* --script: not given, a file that does not exist, or the lines of the file
\* (pos counts the lines read so far)
NoScript == [given |-> FALSE, exists |-> FALSE, lines |-> <<>>, pos |-> 0]
ScriptMissing == [given |-> TRUE, exists |-> FALSE, lines |-> <<>>, pos |-> 0]
ScriptFile(lines) == [given |-> TRUE, exists |-> TRUE, lines |-> lines, pos |-> 0]

Script1 ==
    ScriptFile(<< <<"m", "k", "d", "i", "r", " ", "x">>,
                  <<>>,
                  <<"c", "d", " ", "x", " ", "'">>,
                  <<"c", "d", " ", "x">>,
                  <<"e", "x", "i", "t">>,
                  <<"m", "k", "d", "i", "r", " ", "y">> >>)

\* a script of the one line history
Script2 == ScriptFile(<< <<"h", "i", "s", "t", "o", "r", "y">> >>)

\* the runs of the model
Runs ==
    {[disk |-> DiskMain, script |-> sc] :
        sc \in {NoScript, ScriptMissing, Script1, Script2}}
        \cup {[disk |-> d, script |-> NoScript] :
                d \in {DiskDenied, DiskBroken, DiskFile("data", TRUE), DiskMissing}}

\* what the user types into the entry
Lines ==
    { <<"l", "s">>,
      <<"c", "d">>,
      <<"c", "d", " ", "d">>,
      <<"c", "d", " ", ".", ".">>,
      <<"c", "d", " ", "$", "H">>,
      <<"m", "k", "d", "i", "r", " ", "x">>,
      <<"m", "k", "d", "i", "r", " ", "d", "/", ".", ".">>,
      <<"m", "k", "d", "i", "r", " ", "/", "d", "/", "x">>,
      <<"m", "k", "d", "i", "r", " ", "f", "/", "x">>,
      <<"c", "h", "m", "o", "d", " ", "7", "0", "0", " ", "d">>,
      <<"c", "h", "m", "o", "d", " ", "9", "9", "9", " ", "f">>,
      <<"h", "i", "s", "t", "o", "r", "y">>,
      <<"e", "x", "i", "t">>,
      <<"f", "o", "o">>,
      <<"'">>,
      <<" ">> }

----------------------------------------------------------------------------
(* The session: __main__, ShellGUI.__init__ and the event handlers *)

NoCall == [fn |-> "none", cwd |-> None, path |-> <<>>, node |-> None]

\* ShellGUI.__init__: the messages printed before the script runs
InitOutput(t) ==
    LET root == t[1]
        motd == IF MOTD \in DOMAIN root.children /\ ~t[root.children[MOTD]].is_dir
                THEN <<Msg("motd", <<>>)>> ELSE <<>>
    IN  motd \o <<Msg("[debug] VFS loaded", <<>>), Msg("[debug] entries", <<>>)>>

\* __main__ up to the script: phase "failed" is sys.exit(1)
Init ==
    \E run \in Runs, env \in Environs :
        LET built == build_vfs_from_disk(run.disk)
        IN  /\ tree = built.tree
            /\ vfs_root = IF built.ok THEN 1 ELSE None
            /\ cwd = IF built.ok THEN 1 ELSE None
            /\ history = <<>>
            /\ hist_index = NoIndex
            /\ entry_var = <<>>
            /\ output = IF built.ok THEN InitOutput(built.tree)
                        ELSE <<Msg("Failed to build VFS", <<>>)>>
            /\ phase = IF built.ok THEN "init" ELSE "failed"
            /\ script = run.script
            /\ environ = env
            /\ timers = 0
            /\ call = NoCall
            /\ src_dir = run.disk

\* the end of __init__: run_script up to its loop, or nothing without --script
Start ==
    /\ phase = "init"
    /\ IF ~script.given THEN phase' = "interactive" /\ output' = <<>>
       ELSE IF ~script.exists
       THEN phase' = "interactive" /\ output' = <<Msg("[error] Script not found", <<>>)>>
       ELSE phase' = "script" /\ output' = <<Msg("[script] Running", <<>>)>>
    /\ UNCHANGED <<src_dir, tree, vfs_root, cwd, history, hist_index, entry_var, script,
                   environ, timers, call>>

\* a submitted line that is recorded as execute_line expands it
Submit_expanded(line) ==
    LET hist == Append(history, expand_vars(environ, line))
        s == execute_line([Session EXCEPT !.out = <<Echo(line)>>], hist, environ, line)
    IN  /\ history' = hist
        /\ tree' = s.tree
        /\ cwd' = s.cwd
        /\ output' = s.out
        /\ timers' = s.timers
        /\ src_dir' = src_dir

\* a submitted line whose new directory is also made in the real directory
Submit_on_disk(line) ==
    LET hist == Append(history, line)
        s == execute_line([Session EXCEPT !.out = <<Echo(line)>>], hist, environ, line)
    IN  /\ history' = hist
        /\ tree' = s.tree
        /\ cwd' = s.cwd
        /\ output' = s.out
        /\ timers' = s.timers
        /\ src_dir' = IF Len(s.tree) > Len(tree)
                      THEN [src_dir EXCEPT !.entries =
                               (s.tree[Len(s.tree)].name :> DiskDir("ok", <<>>)) @@ @]
                      ELSE src_dir

\* a submitted line that is executed before it is appended to history
Submit_late(line) ==
    LET s == execute_line([Session EXCEPT !.out = <<Echo(line)>>], history, environ, line)
    IN  /\ history' = Append(history, line)
        /\ tree' = s.tree
        /\ cwd' = s.cwd
        /\ output' = s.out
        /\ timers' = s.timers
        /\ src_dir' = src_dir

\* a submitted line: history.append(line) and execute_line(line)
Submit(line) ==
    LET hist == Append(history, line)
        s == execute_line([Session EXCEPT !.out = <<Echo(line)>>], hist, environ, line)
    IN  /\ history' = hist
        /\ tree' = s.tree
        /\ cwd' = s.cwd
        /\ output' = s.out
        /\ timers' = s.timers
        /\ src_dir' = src_dir

\* run_script whose loop ends at the first line that fails to tokenize
ScriptLine_abort ==
    /\ phase = "script"
    /\ script.pos < Len(script.lines)
    /\ LET cmd_line == script.lines[script.pos + 1]
       IN  /\ IF IsBlank(cmd_line)
              THEN /\ output' = <<>>
                   /\ UNCHANGED <<src_dir, tree, cwd, history, timers>>
              ELSE Submit(cmd_line)
           /\ script' = [script EXCEPT !.pos =
                            IF ~IsBlank(cmd_line)
                               /\ ~shlex_split(expand_vars(environ, cmd_line)).ok
                            THEN Len(script.lines) ELSE @ + 1]
    /\ UNCHANGED <<vfs_root, hist_index, entry_var, phase, environ, call>>

\* run_script: one iteration of `for raw in f`
ScriptLine ==
    /\ phase = "script"
    /\ script.pos < Len(script.lines)
    /\ LET cmd_line == script.lines[script.pos + 1]
       IN  IF IsBlank(cmd_line)
           THEN /\ output' = <<>>
                /\ UNCHANGED <<src_dir, tree, cwd, history, timers>>
           ELSE Submit(cmd_line)
    /\ script' = [script EXCEPT !.pos = @ + 1]
    /\ UNCHANGED <<vfs_root, hist_index, entry_var, phase, environ, call>>

\* the end of the file: run_script and __init__ return, mainloop starts
ScriptEnd ==
    /\ phase = "script"
    /\ script.pos = Len(script.lines)
    /\ phase' = "interactive"
    /\ output' = <<>>
    /\ UNCHANGED <<src_dir, tree, vfs_root, cwd, history, hist_index, entry_var, script,
                   environ, timers, call>>

\* the number of lines submitted from the entry
Typed ==
    Len(history) - Cardinality({i \in 1..script.pos : ~IsBlank(script.lines[i])})

\* ShellGUI.on_enter, the user having typed line into the entry
on_enter(line) ==
    /\ phase = "interactive"
    /\ Typed < MaxHist
    /\ IF IsBlank(line)
       THEN /\ output' = <<Msg("prompt", prompt_text(tree, cwd))>>
            /\ UNCHANGED <<src_dir, tree, cwd, history, hist_index, timers>>
       ELSE /\ Submit(line)
            /\ hist_index' = NoIndex
    /\ entry_var' = <<>>
    /\ UNCHANGED <<vfs_root, phase, script, environ, call>>

\* on_history_up whose first recall is the oldest entry
on_history_up_oldest ==
    /\ phase = "interactive"
    /\ IF history = <<>>
       THEN UNCHANGED <<hist_index, entry_var>>
       ELSE LET i == IF hist_index = NoIndex THEN 0
                     ELSE IF hist_index - 1 > 0 THEN hist_index - 1 ELSE 0
            IN  hist_index' = i /\ entry_var' = history[i + 1]
    /\ output' = <<>>
    /\ UNCHANGED <<src_dir, tree, vfs_root, cwd, history, phase, script, environ, timers, call>>

\* ShellGUI.on_history_up
on_history_up ==
    /\ phase = "interactive"
    /\ IF history = <<>>
       THEN UNCHANGED <<hist_index, entry_var>>
       ELSE LET i == IF hist_index = NoIndex THEN Len(history) - 1
                     ELSE IF hist_index - 1 > 0 THEN hist_index - 1 ELSE 0
            IN  hist_index' = i /\ entry_var' = history[i + 1]
    /\ output' = <<>>
    /\ UNCHANGED <<src_dir, tree, vfs_root, cwd, history, phase, script, environ, timers, call>>

\* on_history_down that leaves the history past its newest entry
on_history_down_unset ==
    /\ phase = "interactive"
    /\ IF history = <<>> \/ hist_index = NoIndex
       THEN UNCHANGED <<hist_index, entry_var>>
       ELSE IF hist_index + 1 > Len(history) - 1
       THEN hist_index' = NoIndex /\ entry_var' = <<>>
       ELSE hist_index' = hist_index + 1 /\ entry_var' = history[hist_index + 2]
    /\ output' = <<>>
    /\ UNCHANGED <<src_dir, tree, vfs_root, cwd, history, phase, script, environ, timers, call>>

\* ShellGUI.on_history_down
on_history_down ==
    /\ phase = "interactive"
    /\ IF history = <<>> \/ hist_index = NoIndex
       THEN UNCHANGED <<hist_index, entry_var>>
       ELSE LET i == IF hist_index + 1 < Len(history) - 1 THEN hist_index + 1
                     ELSE Len(history) - 1
            IN  hist_index' = i /\ entry_var' = history[i + 1]
    /\ output' = <<>>
    /\ UNCHANGED <<src_dir, tree, vfs_root, cwd, history, phase, script, environ, timers, call>>

\* the callback of self.after(200, self.destroy): the window closes and
\* mainloop returns
destroy ==
    /\ phase = "interactive"
    /\ timers > 0
    /\ phase' = "closed"
    /\ output' = <<>>
    /\ UNCHANGED <<src_dir, tree, vfs_root, cwd, history, hist_index, entry_var, script,
                   environ, timers, call>>

Next ==
    \/ Start
    \/ ScriptLine
    \/ ScriptEnd
    \/ \E line \in Lines : on_enter(line)
    \/ on_history_up
    \/ on_history_down
    \/ destroy

Spec == Init /\ [][Next]_vars

----------------------------------------------------------------------------
(* The path helpers called directly: resolve_vfs_path(cwd, path) and
   make_vfs_dir(cwd, path) for any node cwd of a tree the program can build
   and any short path *)

PathChars == {SEP, ".", "d", "f"}

Paths ==
    StringsUpTo(PathChars, MaxPathLen)
        \cup { <<BACKSLASH>>, <<BACKSLASH, "d">>, <<"d", BACKSLASH, "f">>,
               <<"d", BACKSLASH, BACKSLASH, "f">>, <<SEP, "d", BACKSLASH, ".", ".">> }

\* the mkdir commands that built the tree before the call: each is the
\* directory it was run in and its path
FnSetups ==
    { <<>>,
      << [cwd |-> <<SEP>>, path |-> <<"d", SEP, ".", ".">>] >>,
      << [cwd |-> <<SEP, "d">>, path |-> <<".">>] >>,
      << [cwd |-> <<SEP>>, path |-> <<"d", "d">>] >>,
      << [cwd |-> <<SEP>>, path |-> <<SEP, "d", SEP, "d">>],
         [cwd |-> <<SEP, "d">>, path |-> <<"d", SEP, "f">>] >> }

RECURSIVE ApplySetup(_, _)
ApplySetup(t, setup) ==
    IF setup = <<>> THEN t
    ELSE ApplySetup(make_vfs_dir(t, resolve(t, 1, Head(setup).cwd), Head(setup).path,
                                 MODE_DIR).tree,
                    Tail(setup))

InitFn ==
    \E disk \in {DiskMain, DiskDenied}, setup \in FnSetups :
        /\ tree = ApplySetup(build_vfs_from_disk(disk).tree, setup)
        /\ vfs_root = 1
        /\ cwd = 1
        /\ history = <<>>
        /\ hist_index = NoIndex
        /\ entry_var = <<>>
        /\ output = <<>>
        /\ phase = "library"
        /\ script = NoScript
        /\ environ = Environ1
        /\ timers = 0
        /\ call = NoCall
        /\ src_dir = disk

\* resolve_vfs_path(c, p)
ResolveCall ==
    /\ call = NoCall
    /\ \E c \in 1..Len(tree), p \in Paths :
        LET r == resolve_vfs_path(tree, c, p)
        IN  /\ call' = [fn |-> "resolve", cwd |-> c, path |-> p, node |-> r.node]
            /\ tree' = r.tree
    /\ UNCHANGED <<src_dir, vfs_root, cwd, history, hist_index, entry_var, output, phase,
                   script, environ, timers>>

\* make_vfs_dir(c, p)
MkdirCall ==
    /\ call = NoCall
    /\ \E c \in 1..Len(tree), p \in Paths :
        LET r == make_vfs_dir(tree, c, p, MODE_DIR)
        IN  /\ call' = [fn |-> "mkdir", cwd |-> c, path |-> p, node |-> r.node]
            /\ tree' = r.tree
    /\ UNCHANGED <<src_dir, vfs_root, cwd, history, hist_index, entry_var, output, phase,
                   script, environ, timers>>

NextFn ==
    \/ ResolveCall
    \/ MkdirCall

SpecFn == InitFn /\ [][NextFn]_vars

----------------------------------------------------------------------------
(* What the specification says a walk is, stated apart from the code: the
   node a walk from n over the segments segs ends at, None when it fails *)

Nodes == 1..Len(tree)

WalkStep(t, n, seg) ==
    IF seg = DOT THEN n
    ELSE IF seg = DOTDOT THEN (IF t[n].parent # None THEN t[n].parent ELSE n)
    ELSE IF t[n].is_dir /\ seg \in DOMAIN t[n].children THEN t[n].children[seg]
    ELSE None

RECURSIVE WalkFrom(_, _, _)
WalkFrom(t, n, segs) ==
    IF n = None THEN None
    ELSE IF segs = <<>> THEN n
    ELSE WalkFrom(t, WalkStep(t, n, Head(segs)), Tail(segs))

RECURSIVE Climb(_, _, _)
\* the node without a parent that the parent links lead to from n within
\* fuel steps, None when there is none
Climb(t, n, fuel) ==
    IF n \notin 1..Len(t) THEN None
    ELSE IF t[n].parent = None THEN n
    ELSE IF fuel = 0 THEN None
    ELSE Climb(t, t[n].parent, fuel - 1)

\* the nodes whose children map holds the node n
Holders(t, n) ==
    {m \in 1..Len(t) : \E nm \in DOMAIN t[m].children : t[m].children[nm] = n}

----------------------------------------------------------------------------
(* C1: in every state of a session the tree is acyclic and rooted: the root
   is the only node without a parent, and every other node has exactly one
   parent, whose children map holds the node under the node's own name. *)
C1_TreeRooted ==
    phase # "failed" =>
        /\ vfs_root \in Nodes
        /\ \A n \in Nodes :
            /\ tree[n].parent = None <=> n = vfs_root
            /\ Climb(tree, n, Len(tree)) = vfs_root
            /\ n # vfs_root =>
                /\ tree[n].parent \in Nodes
                /\ tree[n].name \in DOMAIN tree[tree[n].parent].children
                /\ tree[tree[n].parent].children[tree[n].name] = n
                /\ Holders(tree, n) = {tree[n].parent}
            /\ n = vfs_root => Holders(tree, n) = {}

\* a session in which mkdir has made a directory named '..' below a
\* subdirectory and another command has run since
C1_Witness ==
    /\ phase = "interactive"
    /\ \E n \in Nodes : tree[n].name = DOTDOT /\ tree[n].parent # vfs_root
    /\ cwd # vfs_root

----------------------------------------------------------------------------
(* Claims about resolve_vfs_path, on the call the state records *)

Resolved == call.fn = "resolve"

\* the segments of the call's path and the node its walk starts at
CallParts == _split_vfs_path(call.path)
CallStart == IF startswith(call.path, SEP) THEN 1 ELSE call.cwd

\* the node the walk is at after the first k segments of the call's path
CallAt(k) == WalkFrom(tree, CallStart, SubSeq(CallParts, 1, k))

(* C2: resolve fails as a whole, returning no node, whenever the walk comes
   to a segment other than '.' and '..' at a node that is not a Directory
   holding a child of exactly that name. *)
C2_NoPartialMatch ==
    Resolved =>
        \A k \in 1..Len(CallParts) :
            LET n == CallAt(k - 1)
                seg == CallParts[k]
            IN  ( /\ n # None
                  /\ seg \notin {DOT, DOTDOT}
                  /\ ~(tree[n].is_dir /\ seg \in DOMAIN tree[n].children) )
                => call.node = None

\* a call that matched a first segment and then met a missing child
C2_Witness ==
    /\ Resolved
    /\ Len(CallParts) >= 2
    /\ CallAt(1) \notin {None, CallStart}
    /\ tree[CallAt(1)].is_dir
    /\ CallParts[2] \notin {DOT, DOTDOT}
    /\ CallParts[2] \notin DOMAIN tree[CallAt(1)].children
    /\ call.node = None

(* C3: resolve fails for every path in which a segment that is not the last
   one denotes a File node, whatever follows the File: a name, '.' or '..'
   (stated for the calls whose cwd is a Directory, as a session's cwd is). *)
C3_FileInTheMiddleFails ==
    (Resolved /\ tree[call.cwd].is_dir) =>
        ( (\E k \in 1..(Len(CallParts) - 1) :
              CallAt(k) # None /\ ~tree[CallAt(k)].is_dir)
          => call.node = None )

(* C4 as stated: resolve(cwd, "") and resolve(cwd, "/") both return the
   tree root, whatever cwd is. *)
C4_EmptyAndSlashAreRoot ==
    (Resolved /\ call.path \in {<<>>, <<SEP>>}) => call.node = 1

(* C4, amended: resolve(cwd, "/") returns the tree root and resolve(cwd, "")
   returns cwd itself, which is the root only when cwd is the root. *)
C4_SlashIsRootEmptyIsCwd ==
    /\ (Resolved /\ call.path = <<SEP>>) => call.node = 1
    /\ (Resolved /\ call.path = <<>>) => call.node = call.cwd

\* the empty path resolved from a node that is not the root
C4_Witness == Resolved /\ call.path = <<>> /\ call.cwd # 1 /\ call.node = call.cwd

(* C5: a path that begins with '/' is resolved from the root, whatever cwd
   is: every other cwd gives the same result, and "/" gives the root; a path
   that does not begin with '/' is resolved from cwd. *)
C5_AbsoluteFromRootRelativeFromCwd ==
    Resolved =>
        /\ startswith(call.path, SEP) =>
              /\ call.node = WalkFrom(tree, 1, CallParts)
              /\ \A c2 \in Nodes : resolve(tree, c2, call.path) = call.node
        /\ call.path = <<SEP>> => call.node = 1
        /\ ~startswith(call.path, SEP) =>
              call.node = WalkFrom(tree, call.cwd, CallParts)

\* an absolute path resolved to a node below the root from a cwd that is
\* not the root and under which the same segments lead nowhere
C5_Witness ==
    /\ Resolved
    /\ startswith(call.path, SEP)
    /\ call.cwd # 1
    /\ call.node \notin {None, 1}
    /\ WalkFrom(tree, call.cwd, CallParts) = None

(* C6: when a path resolves to a node n, resolve(n, "..") is n's parent, and
   the root itself when n is the root; so is the path followed by "/..";
   a '..' segment never fails and never leaves the tree. *)
C6_DotDotIsParentOrRoot ==
    (Resolved /\ call.node # None) =>
        LET n == call.node
            up == IF tree[n].parent # None THEN tree[n].parent ELSE n
        IN  /\ resolve(tree, n, DOTDOT) = up
            /\ up \in Nodes
            /\ n = 1 => up = 1
            /\ call.path # <<>> =>
                  resolve(tree, call.cwd, call.path \o <<SEP, ".", ".">>) = up
            /\ \A k \in 1..Len(CallParts) :
                  (CallParts[k] = DOTDOT /\ CallAt(k - 1) # None) => CallAt(k) \in Nodes

\* a path with a '..' segment taken at the root, resolving to the root
C6_Witness ==
    /\ Resolved
    /\ call.node = 1
    /\ \E k \in 1..Len(CallParts) : CallParts[k] = DOTDOT /\ CallAt(k - 1) = 1

\* p with the string ins put in after its first i characters
Insert(p, i, ins) == SubSeq(p, 1, i) \o ins \o SubSeq(p, i + 1, Len(p))

\* the paths got from p by doubling one '/' or by putting in one '.' segment:
\* "./" at the start of a path that does not begin with '/' and after any
\* '/', "/." at the end of a path that is not empty
Variants(p) ==
    {Insert(p, i, <<SEP>>) : i \in {j \in 1..Len(p) : p[j] = SEP}}
        \cup {Insert(p, i, <<".", SEP>>) : i \in {j \in 1..Len(p) : p[j] = SEP}}
        \cup (IF startswith(p, SEP) THEN {} ELSE {<<".", SEP>> \o p})
        \cup (IF p = <<>> THEN {<<".">>} ELSE {p \o <<SEP, ".">>})

(* C7: resolution does not see empty segments and '.' segments: a path with
   a '/' doubled or a '.' segment put in gives the same node, or the same
   failure, as the path itself. *)
C7_EmptyAndDotSegmentsIgnored ==
    Resolved => \A q \in Variants(call.path) : resolve(tree, call.cwd, q) = call.node

\* a path of two names that resolves, one variant of which doubles its '/'
C7_Witness ==
    /\ Resolved
    /\ call.node # None
    /\ Len(CallParts) = 2
    /\ \A k \in 1..2 : CallParts[k] \notin {DOT, DOTDOT}
    /\ \E i \in 1..Len(call.path) : call.path[i] = SEP /\ i > 1 /\ i < Len(call.path)

(* C8: resolve is a pure lookup: whether it succeeds or fails, the tree (the
   nodes, their children maps, parents, modes and contents), the session's
   cwd and the history are as before the call. *)
C8_ResolveIsPure ==
    [][call'.fn = "resolve" =>
          /\ tree' = tree
          /\ cwd' = cwd
          /\ vfs_root' = vfs_root
          /\ history' = history]_vars

\* a failed lookup of a name missing from a directory
C8_Witness ==
    /\ Resolved
    /\ call.node = None
    /\ Len(CallParts) = 1
    /\ tree[CallStart].is_dir
    /\ CallParts[1] \notin {DOT, DOTDOT}

----------------------------------------------------------------------------
(* Claims about mkdir *)

\* the path a submitted mkdir line names: the second token of the line
LinePath(line) == shlex_split(expand_vars(environ, line)).tokens[2]

\* the step is a submitted line on which cmd_mkdir reported a new directory
MkdirCreated == output' # <<>> /\ output'[Len(output')].kind = "mkdir: created"

(* C9: a successful mkdir adds exactly one node: a Directory without
   children, of mode 0755 (493), named by the last segment of the path, under
   the node the parent path resolves to; every node there was keeps its
   name, kind, parent, mode and content (and its children, but for the new
   entry of the parent), and cwd is as before. *)
C9_MkdirAddsOneDirectory ==
    [][MkdirCreated =>
          \A path \in {LinePath(history'[Len(history')])} :
          \A parts \in {_split_vfs_path(path)} :
          \A parent \in {WalkFrom(tree, IF startswith(path, SEP) THEN vfs_root ELSE cwd,
                                  SubSeq(parts, 1, Len(parts) - 1))} :
              LET name == parts[Len(parts)]
                  new == Len(tree) + 1
              IN  /\ Len(tree') = Len(tree) + 1
                  /\ parent \in 1..Len(tree)
                  /\ tree'[new] = [name |-> name, is_dir |-> TRUE, children |-> <<>>,
                                   content |-> "", parent |-> parent, mode |-> 493]
                  /\ \A n \in 1..Len(tree) :
                        /\ tree'[n].name = tree[n].name
                        /\ tree'[n].is_dir = tree[n].is_dir
                        /\ tree'[n].parent = tree[n].parent
                        /\ tree'[n].mode = tree[n].mode
                        /\ tree'[n].content = tree[n].content
                        /\ tree'[n].children =
                              IF n = parent THEN (name :> new) @@ tree[n].children
                              ELSE tree[n].children
                  /\ cwd' = cwd
                  /\ vfs_root' = vfs_root]_vars

\* a directory just made under a directory other than cwd, by a path of
\* more than one segment, in a session whose cwd is not the root
C9_Witness ==
    /\ output # <<>>
    /\ output[Len(output)].kind = "mkdir: created"
    /\ tree[Len(tree)].parent # cwd
    /\ cwd # vfs_root
    /\ Len(_split_vfs_path(LinePath(history[Len(history)]))) > 1

(* C10: mkdir fails and leaves the tree as it was when the parent path does
   not resolve, when it resolves to a File, and when the parent has a child
   of the last segment's name already, File or Directory; mkdir never makes
   a directory in between and never replaces a child. *)
C10_MkdirFailsWithoutChange ==
    [][call'.fn = "mkdir" =>
          LET path == call'.path
              parts == _split_vfs_path(path)
              start == IF startswith(path, SEP) THEN 1 ELSE call'.cwd
              parent == WalkFrom(tree, start, SubSeq(parts, 1, Len(parts) - 1))
              refused == \/ parent = None
                         \/ ~tree[parent].is_dir
                         \/ parts[Len(parts)] \in DOMAIN tree[parent].children
          IN  /\ (parts # <<>> /\ refused) => (call'.node = None /\ tree' = tree)
              /\ Len(tree') <= Len(tree) + 1
              /\ \A n \in 1..Len(tree) :
                    /\ tree'[n].parent = tree[n].parent
                    /\ \A nm \in DOMAIN tree[n].children :
                          /\ nm \in DOMAIN tree'[n].children
                          /\ tree'[n].children[nm] = tree[n].children[nm]
              /\ Len(tree') = Len(tree) + 1 => tree'[Len(tree')].parent \in 1..Len(tree)
       ]_vars

\* a mkdir refused because the parent holds a File of that name, the path
\* having a parent part
C10_Witness ==
    /\ call.fn = "mkdir"
    /\ call.node = None
    /\ LET parts == _split_vfs_path(call.path)
           start == IF startswith(call.path, SEP) THEN 1 ELSE call.cwd
           parent == WalkFrom(tree, start, SubSeq(parts, 1, Len(parts) - 1))
       IN  /\ Len(parts) > 1
           /\ parent # None
           /\ tree[parent].is_dir
           /\ parts[Len(parts)] \in DOMAIN tree[parent].children
           /\ ~tree[tree[parent].children[parts[Len(parts)]]].is_dir

(* C11: mkdir fails and creates no node when its path has no final segment
   to create: when the path resolves to the root, as "/", "", and ".." and
   "/.." at the root do. *)
C11_MkdirOfRootFails ==
    [][(/\ call'.fn = "mkdir"
        /\ WalkFrom(tree, IF startswith(call'.path, SEP) THEN 1 ELSE call'.cwd,
                    _split_vfs_path(call'.path)) = 1)
          => (call'.node = None /\ tree' = tree)]_vars

----------------------------------------------------------------------------
(* The interpreter called directly: one line entered into a session that
   earlier lines have prepared, for every command, argument count, mode
   string and path of the sets below *)

CD == <<"c", "d">>
LS == <<"l", "s">>
MKDIR == <<"m", "k", "d", "i", "r">>
CHMOD == <<"c", "h", "m", "o", "d">>

\* the line of the given words, the empty word written as ''
Cmd(words) == join([i \in 1..Len(words) |->
                       IF words[i] = <<>> THEN <<"'", "'">> ELSE words[i]], " ")

CmdModes ==
    { <<"7", "5", "5">>, <<"0", "7", "5", "5">>, <<"7", "0", "0">>, <<"6", "4", "4">>,
      <<"0">>, <<"0", "0", "0">>, <<"9", "9", "9">>, <<"-", "1">>, <<"8">>,
      <<"0", "8">>, <<"0", "o", "1", "7">>, <<"1", "0", "0", "0">>, <<"a">>, <<>> }

CmdPaths ==
    { <<"d">>, <<"f">>, <<"x">>, <<".">>, <<".", ".">>, <<SEP>>, <<>>,
      <<SEP, "d">>, <<SEP, "d", SEP, "f">>, <<"d", SEP, "x">>, <<"d", SEP, ".", ".">>,
      <<"f", SEP, ".">>, <<"f", SEP, "x">>, <<SEP, "m", "o", "t", "d">> }

CmdLines ==
    {Cmd(<<CHMOD, m, p>>) : m \in CmdModes, p \in CmdPaths}
        \cup {Cmd(<<c, p>>) : c \in {CD, LS, MKDIR}, p \in CmdPaths}
        \cup {Cmd(<<c>>) : c \in {CD, LS, MKDIR, CHMOD}}
        \cup {Cmd(<<c, <<"d">>, <<"x">> >>) : c \in {CD, LS, MKDIR}}
        \cup { Cmd(<<CHMOD, <<"7", "5", "5">> >>),
               Cmd(<<CHMOD, <<"7", "5", "5">>, <<"d">>, <<"f">> >>),
               <<"c", "d", " ", "$", "H">>,
               <<"l", "s", " ", "$", "H", "/", "f">>,
               <<"h", "i", "s", "t", "o", "r", "y">>,
               <<"h", "i", "s", "t", "o", "r", "y", " ", "d">>,
               <<"e", "x", "i", "t">>,
               <<"e", "x", "i", "t", " ", "n", "o", "w">>,
               <<"d", "a", "t", "e">>,
               <<"c", "a", "l">>,
               <<"c", "a", "l", " ", "1", "3">>,
               <<"h", "e", "l", "p">>,
               <<"f", "o", "o">>,
               <<"f", "o", "o", " ", "d">>,
               <<"L", "S">>,
               <<"l", "s", "d">>,
               <<"$", "H">>,
               <<"c", "d", " ", "'">>,
               <<"c", "d", " ", "'", "d", "'">>,
               <<"m", "k", "d", "i", "r", " ", "x", " ", "$", "Q">>,
               <<"m", "k", "d", "i", "r", " ", "$", "Q", "x", "$", "Q">>,
               <<"m", "k", "d", "i", "r", " ", "\"", "x">>,
               <<" ">> }

\* the lines entered before the call
CmdSetups ==
    { <<>>,
      << Cmd(<<CD, <<"d">> >>) >>,
      << Cmd(<<MKDIR, <<"x">> >>), Cmd(<<MKDIR, <<"d", SEP, "x">> >>) >>,
      << Cmd(<<CHMOD, <<"0", "0", "0">>, <<"d">> >>), Cmd(<<CHMOD, <<"0">>, <<"f">> >>) >>,
      << Cmd(<<CHMOD, <<"0">>, <<"d">> >>), Cmd(<<CD, <<"d">> >>),
         Cmd(<<CHMOD, <<"7", "0", "0">>, <<"f">> >>) >>,
      << Cmd(<<MKDIR, <<"d", SEP, "x">> >>), Cmd(<<CHMOD, <<"7", "0", "0">>, <<"d", SEP, "x">> >>),
         Cmd(<<CD, <<"d", SEP, "x">> >>) >>,
      << Cmd(<<MKDIR, <<"d", SEP, ".", ".">> >>), Cmd(<<MKDIR, <<".", ".">> >>) >>,
      << Cmd(<<CHMOD, <<"9", "9", "9">>, <<"f">> >>),
         Cmd(<<CHMOD, <<"-", "1">>, <<SEP, "d", SEP, "f">> >>), Cmd(<<MKDIR, <<"a">> >>) >> }

RECURSIVE RunLines(_, _, _, _)
\* the lines from position i on, each as on_enter runs it: history.append(line),
\* execute_line(line)
RunLines(s, env, lines, i) ==
    IF i > Len(lines) THEN s
    ELSE RunLines(execute_line(s, SubSeq(lines, 1, i), env, lines[i]), env, lines, i + 1)

InitCmd ==
    \E setup \in CmdSetups :
        LET s == RunLines([tree |-> build_vfs_from_disk(DiskMain).tree, cwd |-> 1,
                           out |-> <<>>, timers |-> 0], Environ1, setup, 1)
        IN  /\ tree = s.tree
            /\ vfs_root = 1
            /\ cwd = s.cwd
            /\ history = setup
            /\ hist_index = NoIndex
            /\ entry_var = <<>>
            /\ output = <<>>
            /\ phase = "command"
            /\ script = NoScript
            /\ environ = Environ1
            /\ timers = s.timers
            /\ call = NoCall
            /\ src_dir = DiskMain

\* on_enter with the line in the entry, once
EnterCall ==
    /\ phase = "command"
    /\ call = NoCall
    /\ \E line \in CmdLines :
        /\ IF IsBlank(line)
           THEN /\ output' = <<Msg("prompt", prompt_text(tree, cwd))>>
                /\ UNCHANGED <<src_dir, tree, cwd, history, timers>>
           ELSE Submit(line)
        /\ call' = [fn |-> "enter", cwd |-> cwd, path |-> line, node |-> None]
    /\ hist_index' = NoIndex
    /\ entry_var' = <<>>
    /\ UNCHANGED <<vfs_root, phase, script, environ>>

\* the kinds of message a command-level failure prints
FailureKinds ==
    { "parse error", "Unknown command", "exit: unexpected arguments",
      "ls: cannot access", "cd: too many arguments", "cd: no such file or directory",
      "cd: not a directory", "mkdir: usage", "mkdir: cannot create", "chmod: usage",
      "chmod: invalid mode", "chmod: no such file or directory", "cal: invalid month",
      "cal: error parsing arguments" }

\* the lines entered after a line that failed
FollowLines ==
    { Cmd(<<MKDIR, <<"x">> >>), Cmd(<<CD, <<"d">> >>), Cmd(<<CD, <<".", ".">> >>),
      Cmd(<<LS>>), Cmd(<<CHMOD, <<"7", "0", "0">>, <<"f">> >>),
      <<"h", "i", "s", "t", "o", "r", "y">>, <<"e", "x", "i", "t">>, <<"f", "o", "o">> }

\* on_enter once more, after a line that printed a failure
EnterNext ==
    /\ phase = "command"
    /\ call.fn = "enter"
    /\ output[Len(output)].kind \in FailureKinds
    /\ \E line \in FollowLines :
        /\ Submit(line)
        /\ call' = [fn |-> "next", cwd |-> cwd, path |-> line, node |-> None]
    /\ hist_index' = NoIndex
    /\ entry_var' = <<>>
    /\ UNCHANGED <<vfs_root, phase, script, environ>>

NextCmd ==
    \/ EnterCall
    \/ EnterNext

SpecCmd == InitCmd /\ [][NextCmd]_vars

----------------------------------------------------------------------------
(* Claims about the commands, on the line the state records *)

\* the line just entered had cmd_mkdir report a new directory
EnteredMkdir ==
    /\ call.fn = "enter"
    /\ output # <<>>
    /\ output[Len(output)].kind = "mkdir: created"

(* C12: mkdir is not idempotent: after a mkdir that succeeded, the same
   mkdir entered again in the same cwd fails with the error for an existing
   name and adds no node; cd with the same path then enters the new
   directory, and ls there prints no entry. *)
C12_MkdirTwiceThenEnter ==
    EnteredMkdir =>
        LET path == LinePath(call.path)
            again == cmd_mkdir(Session, <<path>>)
            entered == cmd_cd(Session, <<path>>)
            listed == cmd_ls([entered EXCEPT !.out = <<>>], <<>>)
        IN  /\ again.out = <<Msg("mkdir: cannot create", path)>>
            /\ again.tree = tree
            /\ entered.cwd = Len(tree)
            /\ listed.out = <<>>

\* the words of the line just entered, none when it does not tokenize
EnteredWords ==
    LET lexed == shlex_split(expand_vars(environ, call.path))
    IN  IF call.fn = "enter" /\ lexed.ok THEN lexed.tokens ELSE <<>>

\* the node a path names in the state before the line, None when it names none
Target(path) ==
    WalkFrom(tree, IF startswith(path, SEP) THEN vfs_root ELSE cwd, _split_vfs_path(path))

\* the base a mode string is read in
ModeBase(m) ==
    IF startswith(m, "0") \/ \A i \in 1..Len(m) : m[i] \in {"0", "1", "2", "3", "4", "5", "6", "7"}
    THEN 8 ELSE 10

\* mode strings and the values they stand for
ModeTable ==
    { [text |-> <<"7", "5", "5">>, value |-> 493],
      [text |-> <<"0", "7", "5", "5">>, value |-> 493],
      [text |-> <<"7", "0", "0">>, value |-> 448],
      [text |-> <<"6", "4", "4">>, value |-> 420],
      [text |-> <<"0">>, value |-> 0],
      [text |-> <<"0", "0", "0">>, value |-> 0] }

(* C13: chmod <mode> <path> with a path that resolves and a mode string
   that parses sets the mode of the node to the value of the string, whatever
   the mode was: the string is read in base 8 when it starts with '0' or
   has only the digits 0-7, in base 10 otherwise; chmod 755 p leaves the mode
   of p at 0755 (493).  No other node's mode changes. *)
C13_ChmodSetsParsedMode ==
    [][\A w \in {EnteredWords'} :
          (Len(w) = 3 /\ w[1] = CHMOD) =>
              \A node \in {Target(w[3])} :
              \A v \in {ParseInt(w[2], ModeBase(w[2]))} :
                  (node # None /\ v.ok) =>
                      /\ tree'[node].mode = v.value
                      /\ \A e \in ModeTable : w[2] = e.text => tree'[node].mode = e.value
                      /\ output'[Len(output')].kind = "chmod: changed mode"
                      /\ \A n \in 1..Len(tree) \ {node} : tree'[n].mode = tree[n].mode
      ]_vars

\* chmod 755 f entered in /d after chmod 700 f: the mode of /d/f is 0755
C13_Witness ==
    /\ EnteredWords = <<CHMOD, <<"7", "5", "5">>, <<"f">> >>
    /\ Len(history) = 4
    /\ history[3] = Cmd(<<CHMOD, <<"7", "0", "0">>, <<"f">> >>)
    /\ cwd = 2
    /\ tree[3].mode = 493
    /\ tree[3].parent = 2

(* C14: chmod with a mode string that is malformed or out of range (not a
   value in 0..0o777) fails with the invalid-mode error and changes no
   node's mode; so does chmod 999 /motd. *)
C14_BadModeIsRefused ==
    [][\A w \in {EnteredWords'} :
          (Len(w) = 3 /\ w[1] = CHMOD) =>
              \A v \in {ParseInt(w[2], ModeBase(w[2]))} :
                  (~v.ok \/ v.value \notin 0..511) =>
                      /\ output'[Len(output')].kind = "chmod: invalid mode"
                      /\ \A n \in 1..Len(tree) : tree'[n].mode = tree[n].mode
      ]_vars

(* C15: in every state of a session every node's mode is a 9-bit value, an
   integer in 0..0o777 (0..511), whatever chmod and mkdir commands have run
   on the ingested tree. *)
C15_ModesAreNineBit ==
    \A n \in Nodes : tree[n].mode \in 0..511

(* C16: chmod fails when its path does not resolve, and chmod with a number
   of arguments other than two fails with the usage error; either way no
   node's mode changes, and the tree and cwd are as before. *)
C16_ChmodFailsWithoutChange ==
    [][\A w \in {EnteredWords'} :
          (w # <<>> /\ w[1] = CHMOD) =>
              /\ Len(w) # 3 =>
                    /\ output'[Len(output')].kind = "chmod: usage"
                    /\ tree' = tree
                    /\ cwd' = cwd
              /\ (Len(w) = 3 /\ Target(w[3]) = None) =>
                    /\ output'[Len(output')].kind
                          \in {"chmod: no such file or directory", "chmod: invalid mode"}
                    /\ ParseInt(w[2], ModeBase(w[2])).ok
                          => output'[Len(output')].kind = "chmod: no such file or directory"
                    /\ tree' = tree
                    /\ cwd' = cwd
      ]_vars

\* chmod with a mode that parses and a path through a File, entered in a
\* directory other than the root whose own mode is not the default
C16_Witness ==
    /\ EnteredWords = <<CHMOD, <<"7", "0", "0">>, <<"f", SEP, "x">> >>
    /\ output[Len(output)].kind = "chmod: no such file or directory"
    /\ cwd = 2
    /\ tree[2].mode = 0

\* the tree with every node's mode replaced by the mode m
Relabel(t, m) == [n \in 1..Len(t) |-> [t[n] EXCEPT !.mode = m]]

\* the kinds of the messages of an output
Kinds(out) == [i \in 1..Len(out) |-> out[i].kind]

(* C17: modes are labels only.  A line entered in a session and the same
   line entered in the session that differs from it only in the modes of its
   nodes print the same kinds of message, leave the same cwd and leave trees
   that differ only in modes; every path resolves to the same node in both;
   cd into a directory of mode 000 succeeds. *)
C17_ModesAreLabelsOnly ==
    [][(call'.fn = "enter" /\ ~IsBlank(call'.path)) =>
          /\ \A m \in {0, 511, 999} :
              \A s \in {execute_line([tree |-> Relabel(tree, m), cwd |-> cwd,
                                      out |-> <<Echo(call'.path)>>, timers |-> timers],
                                     Append(history, call'.path), environ, call'.path)} :
                  /\ s.cwd = cwd'
                  /\ Relabel(s.tree, 0) = Relabel(tree', 0)
                  /\ Kinds(s.out) = Kinds(output')
                  /\ \A p \in CmdPaths :
                        resolve(Relabel(tree, m), cwd, p) = resolve(tree, cwd, p)
          /\ \A w \in {EnteredWords'} :
                (Len(w) = 2 /\ w[1] = CD /\ Target(w[2]) # None /\ tree[Target(w[2])].is_dir)
                    => cwd' = Target(w[2])
      ]_vars

\* cd d entered at the root after chmod 000 d: cwd is the directory of mode 0
C17_Witness ==
    /\ EnteredWords = <<CD, <<"d">> >>
    /\ call.cwd = 1
    /\ cwd = 2
    /\ tree[2].mode = 0
    /\ tree[2].is_dir

(* C18: cd without an argument sets cwd to the root; cd p sets cwd to the
   node p resolves to from cwd when that node is a Directory; cd with more
   than one argument, with a path that does not resolve or with a path that
   resolves to a File prints an error and leaves cwd as it was.  cd never
   changes the tree. *)
C18_CdRules ==
    [][\A w \in {EnteredWords'} :
          (w # <<>> /\ w[1] = CD) =>
              /\ tree' = tree
              /\ Len(w) = 1 =>
                    /\ cwd' = vfs_root
                    /\ Kinds(output') = <<"prompt", "">>
              /\ Len(w) = 2 =>
                    \A node \in {Target(w[2])} :
                        IF node # None /\ tree[node].is_dir
                        THEN cwd' = node /\ Kinds(output') = <<"prompt", "">>
                        ELSE /\ cwd' = cwd
                             /\ Kinds(output') =
                                   <<"prompt", IF node = None
                                               THEN "cd: no such file or directory"
                                               ELSE "cd: not a directory">>
              /\ Len(w) > 2 =>
                    /\ cwd' = cwd
                    /\ Kinds(output') = <<"prompt", "cd: too many arguments">>
      ]_vars

\* cd f entered in /d, where f is a File: the error, and cwd still /d
C18_Witness ==
    /\ EnteredWords = <<CD, <<"f">> >>
    /\ output[Len(output)].kind = "cd: not a directory"
    /\ call.cwd = 2
    /\ cwd = 2

\* the text of a mode: three octal digits and the rwx letters of its nine bits
ModeText(mode) ==
    LET bits == mode % 512
        Bit(k) == (bits \div (2 ^ k)) % 2 = 1
        Digit(d) == <<"0", "1", "2", "3", "4", "5", "6", "7">>[d + 1]
        Letter(k) == IF Bit(k) THEN <<"x", "w", "r">>[(k % 3) + 1] ELSE "-"
    IN  <<Digit(bits \div 64), Digit((bits \div 8) % 8), Digit(bits % 8), " ", "(">>
            \o [i \in 1..9 |-> Letter(9 - i)] \o <<")">>

\* the line ls prints for the node c
LsText(c) ==
    tree[c].name \o (IF tree[c].is_dir THEN <<SEP>> ELSE <<>>) \o <<"\t">>
        \o ModeText(tree[c].mode)

\* the number the three octal digits after the tab of an ls line stand for
OctalShown(text) ==
    LET tab == CHOOSE i \in 1..Len(text) : text[i] = "\t"
        D(i) == CHOOSE d \in 0..7 : <<"0", "1", "2", "3", "4", "5", "6", "7">>[d + 1] = text[tab + i]
    IN  64 * D(1) + 8 * D(2) + D(3)

(* C19: ls [path] on a Directory prints exactly one line per child, in
   ascending order of the names, each line the child's name, '/' iff the
   child is a Directory, and the child's stored mode (the nine bits of it, in
   octal and as rwx letters); on a File it prints the file's name only; on a
   path that does not resolve it prints an error; ls changes neither the
   tree nor cwd. *)
C19_LsListsChildren ==
    [][\A w \in {EnteredWords'} :
          (w # <<>> /\ w[1] = LS) =>
              /\ tree' = tree
              /\ cwd' = cwd
              /\ \A node \in {IF Len(w) = 1 THEN cwd ELSE Target(w[2])} :
                 \A lines \in {Tail(output')} :
                    IF node = None THEN lines = <<Msg("ls: cannot access", w[2])>>
                    ELSE IF ~tree[node].is_dir
                    THEN lines = <<Msg("ls file", tree[node].name)>>
                    ELSE LET ch == tree[node].children
                             Rank(nm) == 1 + Cardinality({x \in DOMAIN ch : StrLess(x, nm)})
                         IN  /\ Len(lines) = Cardinality(DOMAIN ch)
                             /\ \A nm \in DOMAIN ch :
                                   /\ lines[Rank(nm)] = Msg("ls entry", LsText(ch[nm]))
                                   /\ tree[ch[nm]].mode \in 0..511 =>
                                         OctalShown(lines[Rank(nm)].text) = tree[ch[nm]].mode
      ]_vars

\* ls entered at the root after chmod 000 d and chmod 0 f: three lines, the
\* Directory d first, with its mode, then the Files f and motd
C19_Witness ==
    /\ EnteredWords = <<LS>>
    /\ cwd = 1
    /\ Len(output) = 4
    /\ output[2].text = <<"d", "/", "\t", "0", "0", "0", " ", "(",
                          "-", "-", "-", "-", "-", "-", "-", "-", "-", ")">>
    /\ output[3].text = <<"f", "\t", "0", "0", "0", " ", "(",
                          "-", "-", "-", "-", "-", "-", "-", "-", "-", ")">>
    /\ output[4].text = <<"m", "o", "t", "d", "\t", "6", "4", "4", " ", "(",
                          "r", "w", "-", "r", "-", "-", "r", "-", "-", ")">>

----------------------------------------------------------------------------
(* Claims about the history *)

\* the line run_script reads next
NextScriptLine == script.lines[script.pos + 1]

(* C20 as stated: every line submitted, through on_enter or from the script
   file, valid or not, is appended to history as its raw text, and nothing
   else changes history; so after N submitted lines history has N entries
   and the N-th entry is the N-th line. *)
C20_EverySubmittedLineRecorded ==
    [][/\ \A line \in Lines : on_enter(line) => history' = Append(history, line)
       /\ ScriptLine =>
             history' = IF IsBlank(NextScriptLine) THEN history
                        ELSE Append(history, NextScriptLine)
       /\ ~(ScriptLine \/ \E line \in Lines : on_enter(line)) => history' = history
      ]_vars

(* C20: every line that is not blank, submitted through on_enter or read
   from the script file, valid or not, is appended to history as its raw
   text, before variable expansion; a blank line leaves history as it is,
   and nothing else changes history.  So after N non-blank lines history
   has N entries and the N-th entry is the N-th such line. *)
C20_NonBlankLinesRecorded ==
    [][/\ \A line \in Lines :
             on_enter(line) =>
                 history' = IF IsBlank(line) THEN history ELSE Append(history, line)
       /\ ScriptLine =>
             history' = IF IsBlank(NextScriptLine) THEN history
                        ELSE Append(history, NextScriptLine)
       /\ ~(ScriptLine \/ \E line \in Lines : on_enter(line)) => history' = history
      ]_vars

\* the five lines of the script that are not blank, one of them a parse
\* error, then an unknown command and a cd that expanded $H, all as entered
C20_Witness ==
    /\ phase = "interactive"
    /\ Len(history) = 7
    /\ history[2] = <<"c", "d", " ", "x", " ", "'">>
    /\ history[6] = <<"f", "o", "o">>
    /\ history[7] = <<"c", "d", " ", "$", "H">>
    /\ cwd = 2

\* a is a prefix of b
IsPrefix(a, b) == Len(a) <= Len(b) /\ SubSeq(b, 1, Len(a)) = a

\* what a line does to a session of this tree, cwd and history, whatever the
\* rest of the state is
LineEffect(line) ==
    execute_line([tree |-> tree, cwd |-> cwd, out |-> <<Echo(line)>>, timers |-> 0],
                 Append(history, line), environ, line)

(* C21: history is append-only: across every step the history before is a
   prefix of the history after.  The session holds no command state other
   than cwd and history: what a submitted line prints and what it does to
   the tree and to cwd is fixed by the tree, cwd, history and the line, and
   does not depend on the recall cursor, the entry, pending timers or the
   position in the script. *)
C21_HistoryAppendOnly ==
    [][/\ IsPrefix(history, history')
       /\ \A line \in Lines :
             (on_enter(line) /\ ~IsBlank(line)) =>
                 \A s \in {LineEffect(line)} :
                     tree' = s.tree /\ cwd' = s.cwd /\ output' = s.out
       /\ (ScriptLine /\ ~IsBlank(NextScriptLine)) =>
             \A s \in {LineEffect(NextScriptLine)} :
                 tree' = s.tree /\ cwd' = s.cwd /\ output' = s.out
      ]_vars

\* the history command entered as the seventh line, after the script that
\* ran exit and left a timer pending: seven entries listed
C21_Witness ==
    /\ phase = "interactive"
    /\ timers > 0
    /\ Len(history) = 7
    /\ history[7] = <<"h", "i", "s", "t", "o", "r", "y">>
    /\ Kinds(output) = <<"prompt">> \o [i \in 1..7 |-> "history entry"]

HISTORY == <<"h", "i", "s", "t", "o", "r", "y">>

\* the decimal numeral of n, 1 <= n <= 99
Numeral(n) ==
    LET D(d) == <<"0", "1", "2", "3", "4", "5", "6", "7", "8", "9">>[d + 1]
    IN  IF n < 10 THEN <<D(n)>> ELSE <<D(n \div 10), D(n % 10)>>

(* C22: the history command without arguments prints every entry of
   history, numbered from 1, in the order of submission; given an argument
   it reports an unexpected-arguments error and lists nothing. *)
C22_HistoryListsOrRefuses ==
    [][\A w \in {EnteredWords'} :
          (w # <<>> /\ w[1] = HISTORY) =>
              IF Len(w) = 1
              THEN /\ Len(output') = Len(history') + 1
                   /\ \A i \in 1..Len(history') :
                         output'[i + 1] =
                             Msg("history entry", Numeral(i) \o <<" ", " ">> \o history'[i])
              ELSE /\ Len(output') = 2
                   /\ output'[2].kind \notin {"history entry", "No history"}
      ]_vars

EXIT == <<"e", "x", "i", "t">>
DATE == <<"d", "a", "t", "e">>
CAL == <<"c", "a", "l">>
HELP == <<"h", "e", "l", "p">>

\* the line just entered was reported as an unknown command, named by its
\* first word, and changed neither the tree nor cwd
ReportedUnknown(w) ==
    /\ output' = <<Echo(call'.path), Msg("Unknown command", w[1])>>
    /\ tree' = tree
    /\ cwd' = cwd

(* C23 as stated: every line whose first token is not one of ls, cd, mkdir,
   chmod, history, exit is reported as an unknown command and changes
   neither the tree nor cwd. *)
C23_SixCommands ==
    [][\A w \in {EnteredWords'} :
          (w # <<>> /\ w[1] \notin {LS, CD, MKDIR, CHMOD, HISTORY, EXIT})
              => ReportedUnknown(w)
      ]_vars

(* C23: dispatch is on the first token over a fixed set of nine commands:
   every line whose first token is not one of ls, cd, mkdir, chmod, history,
   exit, date, cal, help is reported as an unknown command; date, cal and
   help print their text and are not reported as unknown; none of these
   lines changes the tree or cwd. *)
C23_NineCommands ==
    [][\A w \in {EnteredWords'} :
          /\ (w # <<>> /\ w[1] \notin {LS, CD, MKDIR, CHMOD, HISTORY, EXIT, DATE, CAL, HELP})
                => ReportedUnknown(w)
          /\ (w # <<>> /\ w[1] \in {DATE, CAL, HELP}) =>
                /\ Len(output') = 2
                /\ output'[2].kind \in {"date", "cal", "cal: invalid month",
                                        "cal: error parsing arguments", "help"}
                /\ tree' = tree
                /\ cwd' = cwd
      ]_vars

\* the line $H entered in /d: its first token after expansion, /d, names no
\* command
C23_Witness ==
    /\ EnteredWords = << <<SEP, "d">> >>
    /\ call.path = <<"$", "H">>
    /\ output[2] = Msg("Unknown command", <<SEP, "d">>)
    /\ cwd = 2

\* the number of characters c in the text s
Count(s, c) == Cardinality({i \in 1..Len(s) : s[i] = c})

\* a text without backslashes in which a quote is left open: the quote
\* characters of one kind are odd in number and there is none of the other
OpenQuote(s) ==
    /\ Count(s, BACKSLASH) = 0
    /\ \/ Count(s, "'") % 2 = 1 /\ Count(s, "\"") = 0
       \/ Count(s, "\"") % 2 = 1 /\ Count(s, "'") = 0

(* C24: a line whose tokenization fails, as with a quote left open, in the
   line itself or in the value of a variable it expands, is reported as a
   parse error and no part of it is executed: the parse error is the only
   message after the echo, and the tree, cwd and the timers are as before. *)
C24_ParseErrorRunsNothing ==
    [][(call'.fn = "enter" /\ ~IsBlank(call'.path)) =>
          \A expanded \in {expand_vars(environ, call'.path)} :
              /\ OpenQuote(expanded) => ~shlex_split(expanded).ok
              /\ ~shlex_split(expanded).ok =>
                    /\ Kinds(output') = <<"prompt", "parse error">>
                    /\ tree' = tree
                    /\ cwd' = cwd
                    /\ timers' = timers
                    /\ history' = Append(history, call'.path)
      ]_vars

\* mkdir x $Q entered in /d, Q being a single quote: a parse error, and no
\* directory x in /d
C24_Witness ==
    /\ call.fn = "enter"
    /\ call.path = <<"m", "k", "d", "i", "r", " ", "x", " ", "$", "Q">>
    /\ Kinds(output) = <<"prompt", "parse error">>
    /\ cwd = 2
    /\ <<"x">> \notin DOMAIN tree[2].children

----------------------------------------------------------------------------
(* expand_vars called directly, and followed by shlex.split as execute_line
   does, on every short text over the characters below *)

TextChars == {"$", "H", "U", "_", "1", " ", "'"}

Texts == StringsUpTo(TextChars, MaxTextLen)

\* an environment whose values hold a '$', and names that extend other names
Environ2 ==
    (<<"H">> :> <<"$", "U">>) @@ (<<"U">> :> <<"1">>) @@ (<<"H", "1">> :> <<"H">>)
        @@ (<<"_">> :> <<" ">>)

InitExpand ==
    \E text \in Texts, env \in {Environ1, Environ2} :
        /\ tree = build_vfs_from_disk(DiskMain).tree
        /\ vfs_root = 1
        /\ cwd = 1
        /\ history = <<>>
        /\ hist_index = NoIndex
        /\ entry_var = text
        /\ output = <<>>
        /\ phase = "expand"
        /\ script = NoScript
        /\ environ = env
        /\ timers = 0
        /\ call = NoCall
        /\ src_dir = DiskMain

\* expand_vars(text)
ExpandCall ==
    /\ phase = "expand"
    /\ call = NoCall
    /\ output' = <<Msg("expanded", expand_vars(environ, entry_var))>>
    /\ call' = [fn |-> "expand", cwd |-> None, path |-> entry_var, node |-> None]
    /\ UNCHANGED <<src_dir, tree, vfs_root, cwd, history, hist_index, entry_var, phase, script,
                   environ, timers>>

\* execute_line up to the tokens: shlex.split(expand_vars(line))
TokensCall ==
    /\ phase = "expand"
    /\ call = NoCall
    /\ LET lexed == shlex_split(expand_vars(environ, entry_var))
       IN  output' = IF lexed.ok THEN <<Msg("tokens", lexed.tokens)>>
                     ELSE <<Msg("parse error", <<>>)>>
    /\ call' = [fn |-> "tokens", cwd |-> None, path |-> entry_var, node |-> None]
    /\ UNCHANGED <<src_dir, tree, vfs_root, cwd, history, hist_index, entry_var, phase, script,
                   environ, timers>>

NextExpand ==
    \/ ExpandCall
    \/ TokensCall

SpecExpand == InitExpand /\ [][NextExpand]_vars

\* the positions of the text at which an occurrence $NAME starts
Occurrences(text) ==
    {i \in 1..(Len(text) - 1) : text[i] = "$" /\ IsNameStart(text[i + 1])}

\* the position of the last character of the NAME of the occurrence at i
NameLast(text, i) ==
    CHOOSE j \in (i + 1)..Len(text) :
        /\ \A k \in (i + 1)..j : IsNameChar(text[k])
        /\ j = Len(text) \/ ~IsNameChar(text[j + 1])

NameAt(text, i) == SubSeq(text, i + 1, NameLast(text, i))

\* what stands in the expansion for the character at position i
Piece(env, text, i) ==
    IF i \in Occurrences(text) /\ NameAt(text, i) \in DOMAIN env
    THEN env[NameAt(text, i)]
    ELSE IF \E o \in Occurrences(text) :
                o < i /\ i <= NameLast(text, o) /\ NameAt(text, o) \in DOMAIN env
    THEN <<>>
    ELSE <<text[i]>>

RECURSIVE Pieces(_, _, _)
Pieces(env, text, i) ==
    IF i > Len(text) THEN <<>> ELSE Piece(env, text, i) \o Pieces(env, text, i + 1)

(* C25: expansion replaces every occurrence of $NAME, NAME the longest run
   matching [A-Za-z_][A-Za-z0-9_]* after the '$', by the value of NAME in
   the environment when it is set and leaves $NAME as it is when it is not;
   it is applied once (a '$' in a value is not expanded again) and before
   tokenization (the tokens are those of the expanded text, quotes or not);
   a text without an occurrence is returned unchanged. *)
C25_ExpansionOfNames ==
    /\ call.fn = "expand" =>
          /\ output[1].text = Pieces(environ, call.path, 1)
          /\ Occurrences(call.path) = {} => output[1].text = call.path
    /\ call.fn = "tokens" =>
          \A lexed \in {shlex_split(Pieces(environ, call.path, 1))} :
              output = IF lexed.ok THEN <<Msg("tokens", lexed.tokens)>>
                       ELSE <<Msg("parse error", <<>>)>>

\* '$H1 with H = $U, U = 1 and H1 = H: the longest name H1 is taken, and
\* its value H is not read as a name again
C25_Witness ==
    /\ call.fn = "expand"
    /\ call.path = <<"$", "H", "1", "$">>
    /\ environ = Environ2
    /\ output[1].text = <<"H", "$">>

----------------------------------------------------------------------------
(* Claims about failures *)

(* C26: a failure of a command stays in its line.  After a line that fails
   (parse error, unknown command, wrong number of arguments, path that does
   not resolve, invalid mode, exit with arguments) the session is still
   running, with the tree and cwd it had and no timer set, a message has
   been appended after the echo, and the line entered next does what it does
   in any session of that tree, cwd and history. *)
C26_FailuresAreContained ==
    [][/\ (call'.fn \in {"enter", "next"} /\ output'[Len(output')].kind \in FailureKinds) =>
             /\ tree' = tree
             /\ cwd' = cwd
             /\ timers' = timers
             /\ phase' = phase
             /\ Len(output') = 2
             /\ history' = Append(history, call'.path)
       /\ call'.fn = "next" =>
             \A s \in {LineEffect(call'.path)} :
                 tree' = s.tree /\ cwd' = s.cwd /\ output' = s.out
      ]_vars

\* exit now entered in /d/x, then mkdir x: the exit with an argument set no
\* timer, and the mkdir made /d/x/x
C26_Witness ==
    /\ call.fn = "next"
    /\ Len(history) = 5
    /\ history[4] = <<"e", "x", "i", "t", " ", "n", "o", "w">>
    /\ history[5] = Cmd(<<MKDIR, <<"x">> >>)
    /\ timers = 0
    /\ output[Len(output)].kind = "mkdir: created"
    /\ tree[Len(tree)].parent = cwd
    /\ cwd # 1

----------------------------------------------------------------------------
(* The constructor running a script: __init__ up to the return of
   run_script, for every script of a few lines over the lines below *)

ScriptLineSet ==
    { <<"m", "k", "d", "i", "r", " ", "x">>,
      <<>>,
      <<" ">>,
      <<"c", "d", " ", "x", " ", "'">>,
      <<"c", "d", " ", "x">>,
      <<"e", "x", "i", "t">>,
      <<"f", "o", "o">> }

Scripts == StringsUpTo(ScriptLineSet, MaxScriptLen)

InitScript ==
    \E sc \in {NoScript, ScriptMissing} \cup {ScriptFile(lines) : lines \in Scripts} :
        LET built == build_vfs_from_disk(DiskMain)
        IN  /\ tree = built.tree
            /\ vfs_root = 1
            /\ cwd = 1
            /\ history = <<>>
            /\ hist_index = NoIndex
            /\ entry_var = <<>>
            /\ output = InitOutput(built.tree)
            /\ phase = "init"
            /\ script = sc
            /\ environ = Environ1
            /\ timers = 0
            /\ call = NoCall
            /\ src_dir = DiskMain

NextScript ==
    \/ Start
    \/ ScriptLine
    \/ ScriptEnd

\* run_script: `for raw in f` takes the next line of the file; a step of
\* NextScript changes script only by running that line (ScriptLine)
ReadLine ==
    /\ phase = "script"
    /\ script.pos < Len(script.lines)
    /\ script' = [script EXCEPT !.pos = @ + 1]

\* the constructor runs to its end: __init__ and the loop of run_script are
\* synchronous code over a finite file, so each step that can be taken is
\* taken
SpecScript ==
    /\ InitScript
    /\ [][NextScript]_vars
    /\ WF_vars(Start)
    /\ WF_script(ReadLine)
    /\ WF_vars(ScriptEnd)

RECURSIVE NonBlank(_)
\* the lines of a sequence that are not blank, in order
NonBlank(lines) ==
    IF lines = <<>> THEN <<>>
    ELSE IF \A i \in 1..Len(Head(lines)) : Head(lines)[i] = " " THEN NonBlank(Tail(lines))
    ELSE <<Head(lines)>> \o NonBlank(Tail(lines))

(* C27: a script runs every line of the file that is not blank exactly
   once, in the order of the file, one line ending before the next begins;
   blank lines are skipped; a line that fails does not stop the script, the
   lines after it run; and the run finishes. *)
C27_ScriptRunsEveryLine ==
    /\ [](phase = "script" => history = NonBlank(SubSeq(script.lines, 1, script.pos)))
    /\ [][ScriptLine =>
             /\ script'.pos = script.pos + 1
             /\ phase' = "script"
             /\ IF NonBlank(<<NextScriptLine>>) = <<>>
                THEN tree' = tree /\ cwd' = cwd /\ history' = history
                ELSE \A s \in {LineEffect(NextScriptLine)} :
                        /\ tree' = s.tree
                        /\ cwd' = s.cwd
                        /\ output' = s.out
                        /\ history' = Append(history, NextScriptLine)]_vars
    /\ (phase = "script") ~>
          (/\ phase = "interactive"
           /\ script.pos = Len(script.lines)
           /\ history = NonBlank(script.lines))

\* the script of a line that fails to tokenize, a blank line and mkdir x has
\* run to its end: both lines are in history and /x is there
C27_Witness ==
    /\ phase = "interactive"
    /\ script.lines = << <<"c", "d", " ", "x", " ", "'">>, <<" ">>,
                         <<"m", "k", "d", "i", "r", " ", "x">> >>
    /\ history = << <<"c", "d", " ", "x", " ", "'">>, <<"m", "k", "d", "i", "r", " ", "x">> >>
    /\ <<"x">> \in DOMAIN tree[1].children


----------------------------------------------------------------------------
(* C28: once exit with no arguments has been executed, no later line is
   executed: the tree, cwd and history no longer change. *)
C28_NothingRunsAfterExit ==
    [][timers > 0 => tree' = tree /\ cwd' = cwd /\ history' = history]_vars


----------------------------------------------------------------------------
(* C29: Up and Down only navigate: each leaves the tree, cwd and the history
   sequence as they were; Up with nothing recalled shows the most recent
   entry, each further Up the next older one (the oldest stays), and Down
   the next newer one (the most recent stays); with an empty history, or
   Down with nothing recalled, the entry is left alone. *)
C29_RecallIsNavigation ==
    [][/\ (on_history_up \/ on_history_down) =>
             /\ tree' = tree
             /\ cwd' = cwd
             /\ history' = history
             /\ history = <<>> => hist_index' = hist_index /\ entry_var' = entry_var
             /\ history # <<>> /\ hist_index' # NoIndex =>
                   entry_var' = history[hist_index' + 1]
       /\ on_history_up /\ history # <<>> =>
             hist_index' = IF hist_index = NoIndex THEN Len(history) - 1
                           ELSE IF hist_index > 0 THEN hist_index - 1
                           ELSE 0
       /\ on_history_down /\ history # <<>> =>
             /\ hist_index = NoIndex =>
                   hist_index' = NoIndex /\ entry_var' = entry_var
             /\ hist_index # NoIndex =>
                   hist_index' = IF hist_index < Len(history) - 1 THEN hist_index + 1
                                 ELSE hist_index
      ]_vars

\* two lines were entered and Up pressed twice: the older line is in the
\* entry
C29_Witness ==
    /\ phase = "interactive"
    /\ Len(history) = 2
    /\ hist_index = 0
    /\ entry_var = history[1]
    /\ history[1] # history[2]


----------------------------------------------------------------------------
(* C30: across any entered line every node stays in the tree with its name,
   kind and parent, still listed among its parent's children; a line whose
   command did not report a created directory adds no node; a line that did
   is a mkdir and adds exactly one node, a Directory with no children hung
   under a node that was there before. *)
C30_NodesOnlyAddedByMkdir ==
    [][/\ Len(tree') >= Len(tree)
       /\ \A n \in 1..Len(tree) :
             /\ tree'[n].name = tree[n].name
             /\ tree'[n].is_dir = tree[n].is_dir
             /\ tree'[n].parent = tree[n].parent
             /\ \A c \in DOMAIN tree[n].children :
                   /\ c \in DOMAIN tree'[n].children
                   /\ tree'[n].children[c] = tree[n].children[c]
       /\ IF output' # <<>> /\ output'[Len(output')].kind = "mkdir: created"
          THEN /\ shlex_split(expand_vars(environ, call'.path)).tokens[1] = MKDIR
               /\ Len(tree') = Len(tree) + 1
               /\ \A new \in {tree'[Len(tree')]} :
                     /\ new.is_dir
                     /\ new.children = <<>>
                     /\ new.parent \in 1..Len(tree)
                     /\ tree[new.parent].is_dir
                     /\ new.name \notin DOMAIN tree[new.parent].children
                     /\ tree'[new.parent].children[new.name] = Len(tree')
          ELSE Len(tree') = Len(tree)
      ]_vars

\* mkdir d/.. was entered: the tree has one more node, a Directory named ..
\* with no children under /d
C30_Witness ==
    /\ EnteredMkdir
    /\ tree[Len(tree)].name = <<".", ".">>
    /\ tree[Len(tree)].is_dir
    /\ tree[Len(tree)].children = <<>>
    /\ tree[Len(tree)].parent = tree[1].children[<<"d">>]
    /\ Len(history) = 1


----------------------------------------------------------------------------
(* C31: in every state every File node has an empty children map and every
   Directory node has empty content, also after a mkdir whose parent path
   names a File. *)
C31_FilesHaveNoChildren ==
    \A n \in 1..Len(tree) :
        /\ ~tree[n].is_dir => tree[n].children = <<>>
        /\ tree[n].is_dir => tree[n].content = ""

\* make_vfs_dir was called with a path whose parent part resolves to a File
\* with content: it returned None and the File has no child
C31_Witness ==
    /\ call.fn = "mkdir"
    /\ call.node = None
    /\ LET parts == _split_vfs_path(call.path)
           start == IF startswith(call.path, SEP) THEN 1 ELSE call.cwd
           parent == WalkFrom(tree, start, SubSeq(parts, 1, Len(parts) - 1))
       IN  /\ Len(parts) > 1
           /\ parent # None
           /\ ~tree[parent].is_dir
           /\ tree[parent].content # ""
           /\ tree[parent].children = <<>>


----------------------------------------------------------------------------
(* C32: ingestion of a source path that does not exist or is not a directory
   fails before any node is made, and the failure ends the start: there is
   no root and no cwd, only the failure is reported, and no handler ever
   runs, so no command is executed. *)
C32_BadSourceIsFatal ==
    /\ [](/\ \A d \in Disks :
                d.kind # "dir" => build_vfs_from_disk(d) = [ok |-> FALSE, tree |-> <<>>]
          /\ tree = <<>> =>
                /\ phase = "failed"
                /\ vfs_root = None
                /\ cwd = None
                /\ history = <<>>
                /\ output = <<Msg("Failed to build VFS", <<>>)>>)
    /\ [][phase # "failed"]_vars

\* the start on a source path that is a file or is missing: no tree, and the
\* program has exited
C32_Witness ==
    /\ phase = "failed"
    /\ tree = <<>>
    /\ timers = 0


----------------------------------------------------------------------------
(* C33: once the source path has been found to be a directory, ingestion
   succeeds and returns a tree, whatever fails below the root: the start
   never fails after the root node has been made. *)
C33_IngestionSucceedsBelowRoot ==
    /\ \A d \in Disks : d.kind = "dir" => build_vfs_from_disk(d).ok
    /\ tree # <<>> => phase # "failed"


----------------------------------------------------------------------------
(* The real directory after ingestion: the lines of the interpreter entered
   while other programs replace, empty or remove the directory *)

\* a step of the file system, not of the program: the real directory becomes
\* another one
DiskChange ==
    /\ phase = "command"
    /\ \E d \in Disks \ {src_dir} : src_dir' = d
    /\ UNCHANGED <<tree, vfs_root, cwd, history, hist_index, entry_var, output,
                   phase, script, environ, timers, call>>

NextDisk ==
    \/ EnterCall
    \/ EnterNext
    \/ DiskChange

SpecDisk == InitCmd /\ [][NextDisk]_vars

(* C34: the real directory is read at ingestion only and never written: a
   step that enters a line leaves the real directory as it is, a change of
   the real directory leaves the tree, cwd and history as they are, and a
   line entered after such a change has the effect it has on the tree in
   memory. *)
C34_RealDirectoryUntouched ==
    [][/\ call' # call => src_dir' = src_dir
       /\ src_dir' # src_dir =>
             /\ tree' = tree
             /\ cwd' = cwd
             /\ history' = history
             /\ output' = output
       /\ (call' # call /\ history' # history) =>
             \A s \in {LineEffect(call'.path)} :
                 tree' = s.tree /\ cwd' = s.cwd /\ output' = s.out
      ]_vars

\* the real directory was removed after ingestion and mkdir x was entered:
\* the new directory is in the tree and the real directory is still missing
C34_Witness ==
    /\ EnteredMkdir
    /\ src_dir = DiskMissing
    /\ tree[1].children[<<"d">>] = 2
    /\ tree[Len(tree)].name = <<"x">>
    /\ tree[Len(tree)].parent = 1


----------------------------------------------------------------------------
(* C35: every node stays addressable: in every state, for every node n and
   every node taken as cwd, resolve(cwd, n.path_from_root()) is n. *)
C35_PathFromRootResolves ==
    \A n \in 1..Len(tree) : \A c \in 1..Len(tree) :
        resolve(tree, c, path_from_root(tree, n)) = n


----------------------------------------------------------------------------
(* C36: in every state of a session cwd is a Directory node of the tree of
   the session's root: the parent links from cwd lead to vfs_root. *)
C36_CwdIsDirectoryOfTree ==
    phase # "failed" =>
        /\ cwd \in 1..Len(tree)
        /\ tree[cwd].is_dir
        /\ Climb(tree, cwd, Len(tree)) = vfs_root

\* cd to a File was entered in /d/x, a directory made by mkdir, and refused:
\* cwd is the directory it was
C36_Witness ==
    /\ call.fn = "enter"
    /\ output[Len(output)].kind = "cd: not a directory"
    /\ tree[cwd].is_dir
    /\ tree[cwd].name = <<"x">>
    /\ tree[cwd].parent \notin {None, vfs_root}


----------------------------------------------------------------------------
\* the tree without the modes of its nodes
Unmoded(t) == [n \in 1..Len(t) |-> [t[n] EXCEPT !.mode = NoMode]]

(* C37: an entered line changes only the part of the state its command owns:
   cwd changes only by a cd that reports no error; the nodes change only by a
   mkdir that reports the new directory; a mode changes only by a chmod that
   reports the change, and only the mode of the node its path resolves to;
   ls, history, an unknown command and every line that reports a failure
   leave the tree and cwd as they are. *)
C37_CommandsChangeTheirOwnPart ==
    [][call' # call =>
          \A lexed \in {shlex_split(expand_vars(environ, call'.path))} :
          \A w \in {IF lexed.ok THEN lexed.tokens ELSE <<>>} :
          \A kind \in {output'[Len(output')].kind} :
              /\ cwd' # cwd =>
                    /\ w # <<>> /\ w[1] = CD
                    /\ kind \notin FailureKinds
              /\ Unmoded(tree') # Unmoded(tree) =>
                    /\ w # <<>> /\ w[1] = MKDIR
                    /\ kind = "mkdir: created"
              /\ \A n \in 1..Len(tree) :
                    tree'[n].mode # tree[n].mode =>
                        /\ Len(w) = 3 /\ w[1] = CHMOD
                        /\ kind = "chmod: changed mode"
                        /\ n = Target(w[3])
              /\ (\/ w = <<>>
                  \/ w[1] \notin {CD, MKDIR, CHMOD}
                  \/ kind \in FailureKinds) =>
                    /\ tree' = tree
                    /\ cwd' = cwd
      ]_vars

\* in /d, whose mode is 0: chmod 700 x was entered and failed, there being no
\* /d/x; the modes of /d and /f, the nodes and cwd are as they were
C37_Witness ==
    /\ call.fn = "enter"
    /\ EnteredWords = <<CHMOD, <<"7", "0", "0">>, <<"x">> >>
    /\ output[Len(output)].kind = "chmod: no such file or directory"
    /\ cwd = tree[1].children[<<"d">>]
    /\ tree[cwd].mode = 0
    /\ tree[tree[1].children[<<"f">>]].mode = MODE_FILE


----------------------------------------------------------------------------
(* C38: hist_index is in every state unset or an index of history
   (0..len(history)-1); Up on the oldest entry stays there, Down on the
   newest entry stays there and Down never unsets the cursor; Up and Down on
   an empty history change nothing; and every line entered that is not
   blank unsets the cursor. *)
C38_CursorStaysInHistory ==
    /\ [](hist_index = NoIndex \/ hist_index \in 0..(Len(history) - 1))
    /\ [][/\ (on_history_up /\ hist_index = 0) => hist_index' = 0
          /\ (on_history_down /\ hist_index # NoIndex) =>
                /\ hist_index' # NoIndex
                /\ hist_index = Len(history) - 1 => hist_index' = hist_index
          /\ ((on_history_up \/ on_history_down) /\ history = <<>>) =>
                /\ hist_index' = NoIndex
                /\ entry_var' = entry_var
          /\ (phase = "interactive" /\ history' # history) => hist_index' = NoIndex
          /\ \A line \in Lines :
                (on_enter(line) /\ ~IsBlank(line)) =>
                    (history' # history /\ hist_index' = NoIndex)
         ]_vars

\* one line is in history and recalled: the cursor is on the oldest and the
\* newest entry at once, where Up and Down both stay
C38_Witness ==
    /\ phase = "interactive"
    /\ Len(history) = 1
    /\ hist_index = 0
    /\ entry_var = history[1]
    /\ timers = 0


----------------------------------------------------------------------------
(* C39: a line is appended to history before it is executed, so a history
   command entered or read from a script lists itself as its last numbered
   entry, one entry being printed for each line of history, and never prints
   "No history". *)
C39_HistoryListsItself ==
    [][history' # history =>
          \A line \in {history'[Len(history')]} :
          \A lexed \in {shlex_split(expand_vars(environ, line))} :
              (lexed.ok /\ lexed.tokens # <<>> /\ lexed.tokens[1] = HISTORY) =>
                  /\ output'[Len(output')] =
                        Msg("history entry",
                            Numeral(Len(history')) \o <<" ", " ">> \o line)
                  /\ \A i \in 1..Len(output') : output'[i].kind # "No history"
                  /\ Cardinality({i \in 1..Len(output') :
                                     output'[i].kind = "history entry"}) = Len(history')
      ]_vars

\* the script of the one line history has run that line, the first of the
\* session: it printed itself as entry 1
C39_Witness ==
    /\ phase = "script"
    /\ script.pos = 1
    /\ history = << HISTORY >>
    /\ output[Len(output)] = Msg("history entry", <<"1", " ", " ">> \o HISTORY)


----------------------------------------------------------------------------
(* The loops of resolve_vfs_path and path_from_root, one iteration a step:
   a call on any node of a tree the program can build, resolve_vfs_path with
   any short path *)

WalkPaths == StringsUpTo(PathChars, MaxWalkLen) \cup {<<SEP, "d", SEP, ".", ".">>}

InitWalk ==
    \E setup \in FnSetups :
        /\ tree = ApplySetup(build_vfs_from_disk(DiskMain).tree, setup)
        /\ vfs_root = 1
        /\ cwd = 1
        /\ history = <<>>
        /\ hist_index = NoIndex
        /\ entry_var = <<>>
        /\ output = <<>>
        /\ phase = "library"
        /\ script = NoScript
        /\ environ = Environ1
        /\ timers = 0
        /\ call = NoCall
        /\ src_dir = DiskMain

\* the frame of a running call: pc is the statement it is at, node the
\* local variable node, parts the segments not yet visited (in
\* path_from_root the names collected), steps the iterations made
Frame(fn, c, p, pc, node, parts) ==
    [fn |-> fn, cwd |-> c, path |-> p, pc |-> pc, node |-> node, parts |-> parts,
     steps |-> 0]

Running == call # NoCall /\ call.pc # "return"

\* resolve_vfs_path(c, p) is called
ResolveEnter ==
    /\ call = NoCall
    /\ \E c \in 1..Len(tree), p \in WalkPaths :
        call' = Frame("resolve_vfs_path", c, p,
                      IF startswith(p, SEP) THEN "while" ELSE "for", c,
                      _split_vfs_path(p))
    /\ UNCHANGED <<src_dir, tree, vfs_root, cwd, history, hist_index, entry_var,
                   output, phase, script, environ, timers>>

\* while node.parent is not None: node = node.parent
ResolveWhile ==
    /\ Running
    /\ call.fn = "resolve_vfs_path"
    /\ call.pc = "while"
    /\ call' = IF tree[call.node].parent # None
               THEN [call EXCEPT !.node = tree[call.node].parent, !.steps = @ + 1]
               ELSE [call EXCEPT !.pc = "for", !.steps = 0]
    /\ UNCHANGED <<src_dir, tree, vfs_root, cwd, history, hist_index, entry_var,
                   output, phase, script, environ, timers>>

\* the loop that forgets to take the next segment after '.'
ResolveFor_stuck ==
    /\ Running
    /\ call.fn = "resolve_vfs_path"
    /\ call.pc = "for"
    /\ call.parts # <<>>
    /\ \E r \in {ResolveStep(tree, call.node, Head(call.parts))} :
        /\ tree' = r.tree
        /\ call' = IF r.node = None THEN [call EXCEPT !.pc = "return", !.node = None]
                   ELSE IF Head(call.parts) = DOT THEN call
                   ELSE [call EXCEPT !.node = r.node, !.parts = Tail(@),
                                     !.steps = @ + 1]
    /\ UNCHANGED <<src_dir, vfs_root, cwd, history, hist_index, entry_var, output,
                   phase, script, environ, timers>>

\* for part in parts: one iteration
ResolveFor ==
    /\ Running
    /\ call.fn = "resolve_vfs_path"
    /\ call.pc = "for"
    /\ call.parts # <<>>
    /\ \E r \in {ResolveStep(tree, call.node, Head(call.parts))} :
        /\ tree' = r.tree
        /\ call' = IF r.node = None THEN [call EXCEPT !.pc = "return", !.node = None]
                   ELSE [call EXCEPT !.node = r.node, !.parts = Tail(@),
                                     !.steps = @ + 1]
    /\ UNCHANGED <<src_dir, vfs_root, cwd, history, hist_index, entry_var, output,
                   phase, script, environ, timers>>

\* return node, the loop over the parts having ended
ResolveReturn ==
    /\ Running
    /\ call.fn = "resolve_vfs_path"
    /\ call.pc = "for"
    /\ call.parts = <<>>
    /\ call' = [call EXCEPT !.pc = "return"]
    /\ UNCHANGED <<src_dir, tree, vfs_root, cwd, history, hist_index, entry_var,
                   output, phase, script, environ, timers>>

\* n.path_from_root() is called
PathEnter ==
    /\ call = NoCall
    /\ \E n \in 1..Len(tree) :
        call' = Frame("path_from_root", n, <<>>, "while", n, <<>>)
    /\ UNCHANGED <<src_dir, tree, vfs_root, cwd, history, hist_index, entry_var,
                   output, phase, script, environ, timers>>

\* while node.parent is not None: parts.append(node.name); node = node.parent
\* and, the loop having ended, the return of the joined path
PathWhile ==
    /\ Running
    /\ call.fn = "path_from_root"
    /\ call.pc = "while"
    /\ call' = IF tree[call.node].parent # None
               THEN [call EXCEPT !.parts = Append(@, tree[call.node].name),
                                 !.node = tree[call.node].parent,
                                 !.steps = @ + 1]
               ELSE [call EXCEPT !.pc = "return",
                                 !.path = IF call.parts = <<>> THEN <<SEP>>
                                          ELSE <<SEP>> \o join(
                                              [i \in 1..Len(call.parts) |->
                                                  call.parts[Len(call.parts) + 1 - i]],
                                              SEP)]
    /\ UNCHANGED <<src_dir, tree, vfs_root, cwd, history, hist_index, entry_var,
                   output, phase, script, environ, timers>>

\* the statements of a running call
WalkStepTaken ==
    \/ ResolveWhile
    \/ ResolveFor
    \/ ResolveReturn
    \/ PathWhile

NextWalk ==
    \/ ResolveEnter
    \/ PathEnter
    \/ ResolveWhile
    \/ ResolveFor
    \/ ResolveReturn
    \/ PathWhile

\* a call that has been entered runs: the interpreter executes the next
\* statement of the function
SpecWalk == InitWalk /\ [][NextWalk]_vars /\ WF_vars(WalkStepTaken)

(* C40: resolve_vfs_path and path_from_root terminate on every node and
   every path: each call returns; the walk along the parent links takes
   fewer steps than there are nodes and ends at the root; the loop over the
   segments visits each segment once, in order; and what is returned is the
   value of resolve_vfs_path and of path_from_root. *)
C40_WalksTerminate ==
    /\ Running ~> (call # NoCall /\ call.pc = "return")
    /\ [](call # NoCall =>
            /\ call.steps < Len(tree) + Len(_split_vfs_path(call.path))
            /\ call.pc = "while" => call.steps < Len(tree)
            /\ (call.fn = "resolve_vfs_path" /\ call.pc = "for") =>
                  /\ call.steps + Len(call.parts) = Len(_split_vfs_path(call.path))
                  /\ call.parts = SubSeq(_split_vfs_path(call.path), call.steps + 1,
                                         Len(_split_vfs_path(call.path)))
                  /\ (startswith(call.path, SEP) /\ call.steps = 0) => call.node = vfs_root
            /\ (call.fn = "resolve_vfs_path" /\ call.pc = "return") =>
                  call.node = resolve(tree, call.cwd, call.path)
            /\ (call.fn = "path_from_root" /\ call.pc = "return") =>
                  /\ call.node = vfs_root
                  /\ call.path = path_from_root(tree, call.cwd))
    /\ [][(ResolveFor /\ call'.pc = "for") => call'.parts = Tail(call.parts)]_vars

\* resolve_vfs_path(/d/.., "/d/..") has returned the root: it climbed two
\* parent links and visited two segments
C40_Witness ==
    /\ call # NoCall
    /\ call.fn = "resolve_vfs_path"
    /\ call.pc = "return"
    /\ call.path = <<SEP, "d", SEP, ".", ".">>
    /\ tree[call.cwd].name = DOTDOT
    /\ call.node = vfs_root
    /\ call.steps = 2

====
